---- MODULE Spec2Model ----
(***************************************************************************)
(* Model of the shield-app dashboard: the date-range picker                *)
(* (CustomDateRangePicker), the calendar it mounts (Calendar), the cache   *)
(* of fetched data (useDataCache), the dashboard that fetches the rows of  *)
(* the selected range (DataDashboard) and the table that shows them        *)
(* (EnhancedDataTable).                                                    *)
(*                                                                         *)
(* Time.  A Date is an integer number of ticks; a local calendar day has   *)
(* TicksPerDay ticks, tick 0 of a day being local midnight.  Days are      *)
(* numbered from 2024-01-01 (day 0) and all have the same length (no DST   *)
(* change falls in the modelled window).  null is NoDate.                  *)
(*                                                                         *)
(* Events.  Every handler runs to completion, together with the state      *)
(* updates and effects it schedules, as one action.  What a render         *)
(* computes for a cell (isDisabled, line 597) is taken at the time of the  *)
(* event that uses it.  State that only feeds the display (timezoneOffset, *)
(* anchorEl) is left out.  The variables event, onSelectionCalls and       *)
(* onRangeSelectionCalls record the last event, the state it started from  *)
(* and the callbacks it called.                                            *)
(*                                                                         *)
(* Clocks.  The picker reads the clock to the day and the cache to the     *)
(* millisecond: now is the clock of the picker in ticks, dateNow the clock *)
(* of the cache in milliseconds since the cache was created, and each      *)
(* specification advances the clock its components read.                   *)
(*                                                                         *)
(* The cache is React state.  cache is the value of the last render, the   *)
(* one that the getCachedData of that render closes over; setCache does    *)
(* not change it but queues an update, which the next render applies.      *)
(* queuedCache is the state with the queued updates applied.               *)
(*                                                                         *)
(* The dashboard.  The rows of a range are a token (rowsA, rowsB, []).  A  *)
(* call of fetchDataForDateRange is in flight from the await of fetchData  *)
(* until it resolves or rejects, and the rest of fetchData runs then, with *)
(* the cacheKey it computed before the await.  The effect that calls       *)
(* fetchData runs after every render that made a new fetchData, that is    *)
(* whenever the range, the timezone or the cache has changed.              *)
(*                                                                         *)
(* The table is modelled with rows of its own, whose fields are strings,   *)
(* numbers or missing, and strings are sequences of characters.            *)
(*                                                                         *)
(* Specifications.  Each specification drives one component (the picker,   *)
(* the calendar grid, the cache, the dashboard, the table) with the inputs *)
(* that its callers and the user give it, and leaves the state of the      *)
(* others as it is.                                                        *)
(***************************************************************************)
EXTENDS Integers, Sequences, FiniteSets, TLC

VARIABLES
    now,                    \* the wall clock, what new Date() returns
    maxSelectionRangeInDays,\* prop of the picker, handed on to the calendar
    selectedRange,          \* CustomDateRangePicker state
    timezone,               \* CustomDateRangePicker state
    isPickerOpen,           \* CustomDateRangePicker state; the Popover mounts
                            \* the Calendar exactly while it is TRUE
    currentMonth,           \* Calendar state (0..11)
    currentYear,            \* Calendar state
    hoverDate,              \* Calendar state
    selectionState,         \* Calendar state
    event,                  \* the last event handled and the state before it
    onSelectionCalls,       \* the onSelection calls the last event made
    onRangeSelectionCalls,  \* the onRangeSelection calls the last event made
    cache,                  \* useDataCache state as last rendered: the item
                            \* stored under each key, which getCachedData reads
    queuedCache,            \* the same with the updates that setCache has
                            \* queued: the state of the next render
    dateNow,                \* what Date.now() returns, in milliseconds
    cacheEvent,             \* the last call of the cache, what it returned and
                            \* the cache before it
    dashboard,              \* DataDashboard state: startDate, endDate, timezone,
                            \* loading, error, data
    inFlight,               \* the calls of fetchDataForDateRange that a
                            \* fetchData awaits: the cache key of each, in
                            \* the order of dispatch
    effectPending,          \* the component has rendered with a new fetchData
                            \* and the effect that calls it has not run yet
    dashEvent,              \* the last event of the dashboard and the state
                            \* before it
    table,                  \* EnhancedDataTable: the data prop and the state
                            \* filteredData, searchTerm, searchColumn, orderBy,
                            \* order
    tableEvent              \* the last event of the table and the state
                            \* before it

pickerVars == <<now, maxSelectionRangeInDays, selectedRange, timezone, isPickerOpen,
                currentMonth, currentYear, hoverDate, selectionState,
                event, onSelectionCalls, onRangeSelectionCalls>>

cacheVars == <<cache, queuedCache, dateNow, cacheEvent>>

dashVars == <<dashboard, inFlight, effectPending, dashEvent>>

tableVars == <<table, tableEvent>>

vars == <<now, maxSelectionRangeInDays, selectedRange, timezone, isPickerOpen,
          currentMonth, currentYear, hoverDate, selectionState,
          event, onSelectionCalls, onRangeSelectionCalls,
          cache, queuedCache, dateNow, cacheEvent,
          dashboard, inFlight, effectPending, dashEvent,
          table, tableEvent>>

-----------------------------------------------------------------------------
(* Bounds of the model *)

TicksPerDay == 2     \* resolution of the clock within a day
MaxTicks == 1        \* how many ticks the clock advances past the first day
MaxNav == 3          \* months the calendar is navigated away from today's

(* Program constants *)

MAX_PAST_DAYS == 90
DashboardMaxSelectionRangeInDays == 10
DefaultRangeDays == 7
NoDate == -1

-----------------------------------------------------------------------------
(* The civil calendar behind JavaScript's Date (months are 0-based) *)

IsLeapYear(y) == (y % 4 = 0 /\ y % 100 # 0) \/ y % 400 = 0

DaysInMonth(y, m) ==
    IF m = 1 THEN (IF IsLeapYear(y) THEN 29 ELSE 28)
    ELSE IF m \in {3, 5, 8, 10} THEN 30 ELSE 31

\* leap years before year y
LeapYearsBefore(y) == ((y - 1) \div 4) - ((y - 1) \div 100) + ((y - 1) \div 400)

\* days from 2024-01-01 to the first day of year y
DaysBeforeYear(y) ==
    (y - 2024) * 365 + (LeapYearsBefore(y) - LeapYearsBefore(2024))

\* days from the first day of year y to the first day of its month m
DaysBeforeMonth(y, m) ==
    <<0, 31, 59, 90, 120, 151, 181, 212, 243, 273, 304, 334>>[m + 1]
        + (IF m > 1 /\ IsLeapYear(y) THEN 1 ELSE 0)

\* the number of the local day y-(m+1)-d, 2024-01-01 being day 0
DayNumber(y, m, d) == DaysBeforeYear(y) + DaysBeforeMonth(y, m) + (d - 1)

\* new Date(y, m, d): local midnight of that day
NewDate(y, m, d) == DayNumber(y, m, d) * TicksPerDay

DayOf(date) == date \div TicksPerDay

\* Date.getDay(): 0 = Sunday; 2024-01-01 was a Monday
GetDay(date) == (DayOf(date) + 1) % 7

Years == 2024..2025

\* <<getFullYear(), getMonth()>> of a date
YearMonthOf(date) ==
    CHOOSE ym \in Years \X (0..11) :
        /\ DayNumber(ym[1], ym[2], 1) <= DayOf(date)
        /\ DayOf(date) < DayNumber(ym[1], ym[2], 1) + DaysInMonth(ym[1], ym[2])

(* date-fns *)

isAfter(a, b) == a > b
isBefore(a, b) == a < b
isSameDay(a, b) == DayOf(a) = DayOf(b)
subDays(date, n) == date - n * TicksPerDay

Sign(x) == IF x > 0 THEN 1 ELSE IF x < 0 THEN -1 ELSE 0
Abs(x) == IF x < 0 THEN -x ELSE x

\* the number of full days between two dates, truncated towards zero
differenceInDays(dateLeft, dateRight) ==
    LET sign == Sign(dateLeft - dateRight)
        difference == Abs(DayOf(dateLeft) - DayOf(dateRight))
        shifted == dateLeft - sign * difference * TicksPerDay
        isLastDayNotFull == IF Sign(shifted - dateRight) = -sign /\ sign # 0
                            THEN 1 ELSE 0
    IN  sign * (difference - isLastDayNotFull)

-----------------------------------------------------------------------------
(* Calendar: constants and pure helpers *)

\* the entries of DATE_MESSAGES, keyed by the day their 'yyyy-MM-dd' key names
DATE_MESSAGES ==
    [day \in {DayNumber(2025, 3, 25), DayNumber(2025, 3, 30), DayNumber(2025, 4, 1)}
        |-> [disabled |-> FALSE]]

\* format(date, 'yyyy-MM-dd') names the local day of the date, so the lookup
\* DATE_MESSAGES[dateString]?.disabled finds the entry of DayOf(date), if any
DateMessageDisabled(date) ==
    DayOf(date) \in DOMAIN DATE_MESSAGES /\ DATE_MESSAGES[DayOf(date)].disabled

\* minAllowedDate: new Date() moved MAX_PAST_DAYS days back, same time of day
MinAllowedDate(clock) == clock - MAX_PAST_DAYS * TicksPerDay

\* isDateDisabled without the past-days rule
isDateDisabled_NoPastRule(date, clock) == DateMessageDisabled(date)

isDateDisabled(date, clock) ==
    IF DateMessageDisabled(date) THEN TRUE
    ELSE isBefore(date, MinAllowedDate(clock))

\* OrderedRange without the swap of line 452
OrderedRange_NoSwap(anchor, date) == <<anchor, date>>

\* lines 447-453: the anchor and the clicked date, start first
OrderedRange(anchor, date) ==
    IF isAfter(anchor, date) THEN <<date, anchor>> ELSE <<anchor, date>>

\* ExceedsMaxRange letting one day too many through
ExceedsMaxRange_OffByOne(daysDiff, maxDays) == maxDays # 0 /\ daysDiff > maxDays + 1

\* line 457: the guard of the span check (0 is falsy in JavaScript)
ExceedsMaxRange(daysDiff, maxDays) == maxDays # 0 /\ daysDiff > maxDays

\* StartsNewSelection without the second disjunct of line 438
StartsNewSelection_OnlyWhenEmpty(state) == state.startDate = NoDate

\* line 438: a click starts a new selection
StartsNewSelection(state) ==
    state.startDate = NoDate
    \/ (state.startDate # NoDate /\ state.endDate # NoDate)

\* line 445: a click completes the selection
CompletesSelection(state) ==
    state.startDate # NoDate /\ state.endDate = NoDate

\* RecordsHover forgetting the second conjunct of line 475
RecordsHover_AnyStart(state) == state.startDate # NoDate

\* line 475: a hover is recorded
RecordsHover(state) ==
    state.startDate # NoDate /\ state.endDate = NoDate

\* date-fns isWithinInterval, of an interval with start <= end
isWithinInterval(date, start, end) == date >= start /\ date <= end

\* lines 481-499: the cell of date is drawn as part of the range
isInRange(date, state, hover) ==
    IF state.startDate = NoDate THEN FALSE
    ELSE IF state.startDate # NoDate /\ state.endDate # NoDate
    THEN isWithinInterval(date, state.startDate, state.endDate)
    ELSE IF state.startDate # NoDate /\ hover # NoDate
    THEN LET start == IF isBefore(state.startDate, hover) THEN state.startDate ELSE hover
             end == IF isAfter(state.startDate, hover) THEN state.startDate ELSE hover
         IN  isWithinInterval(date, start, end)
    ELSE isSameDay(date, state.startDate)

\* lines 502-514: the edge of the range that the cell of date is, "none" for null
isRangeEdge(date, state) ==
    IF state.startDate = NoDate THEN "none"
    ELSE IF isSameDay(date, state.startDate) THEN "start"
    ELSE IF state.endDate # NoDate /\ isSameDay(date, state.endDate) THEN "end"
    ELSE "none"

\* lines 608-609: what the cell is drawn as
isRangeStart(date, state) == isRangeEdge(date, state) = "start"
isRangeEnd(date, state) == isRangeEdge(date, state) = "end"

\* the two loops of generateCalendarGrid, one step per cell: week and dayOfWeek
\* are the loop counters, day the next day to place
RECURSIVE GridLoop(_, _, _, _, _, _, _, _, _)
GridLoop(y, m, daysInMonth, startingDayOfWeek, week, dayOfWeek, day, weekRow, grid) ==
    IF week >= 6 THEN grid
    ELSE IF dayOfWeek < 7 THEN
        IF week = 0 /\ dayOfWeek < startingDayOfWeek
        THEN GridLoop(y, m, daysInMonth, startingDayOfWeek, week, dayOfWeek + 1, day,
                      Append(weekRow, NoDate), grid)
        ELSE IF day > daysInMonth
        THEN GridLoop(y, m, daysInMonth, startingDayOfWeek, week, dayOfWeek + 1, day,
                      Append(weekRow, NoDate), grid)
        ELSE GridLoop(y, m, daysInMonth, startingDayOfWeek, week, dayOfWeek + 1, day + 1,
                      Append(weekRow, NewDate(y, m, day)), grid)
    ELSE IF day > daysInMonth THEN Append(grid, weekRow)
    ELSE GridLoop(y, m, daysInMonth, startingDayOfWeek, week + 1, 0, day, <<>>,
                  Append(grid, weekRow))

\* generateCalendarGrid taking every month to start on a Sunday
generateCalendarGrid_SundayStart(y, m) ==
    GridLoop(y, m, DaysInMonth(y, m), 0, 0, 0, 1, <<>>, <<>>)

\* generateCalendarGrid stopping one day before the end of the month
generateCalendarGrid_OneDayShort(y, m) ==
    GridLoop(y, m, DaysInMonth(y, m) - 1, GetDay(NewDate(y, m, 1)), 0, 0, 1, <<>>, <<>>)

generateCalendarGrid(y, m) ==
    LET firstDayOfMonth == NewDate(y, m, 1)
        daysInMonth == DaysInMonth(y, m)
        startingDayOfWeek == GetDay(firstDayOfMonth)
    IN  GridLoop(y, m, daysInMonth, startingDayOfWeek, 0, 0, 1, <<>>, <<>>)

\* the dates in the cells of a grid (an empty cell holds null and has no handlers)
GridDates(grid) ==
    {grid[w][i] : w \in DOMAIN grid, i \in 1..7} \ {NoDate}

-----------------------------------------------------------------------------
(* The session that is modelled *)

\* the local day on which the dashboard is opened: 10 March 2025
Today == DayNumber(2025, 2, 10)

\* the days whose cells the user clicks and hovers, relative to Today:
\* beyond the past limit, on it, ten days back, today and tomorrow
ClickOffsets == {0 - 91, 0 - 90, 0 - 10, 0, 1}
ClickDates == {(Today + off) * TicksPerDay : off \in ClickOffsets}

\* the timezones chosen in the selector, two of TIMEZONE_OPTIONS
Timezones == {"Asia/Calcutta", "Europe/London"}

\* the picker's disabled prop: DataDashboard leaves it at its default
disabled == FALSE

NoSelection == [startDate |-> NoDate, endDate |-> NoDate, selecting |-> FALSE]

\* the component state an event starts from
View ==
    [selectionState |-> selectionState, hoverDate |-> hoverDate,
     currentMonth |-> currentMonth, currentYear |-> currentYear,
     selectedRange |-> selectedRange, timezone |-> timezone,
     isPickerOpen |-> isPickerOpen, now |-> now]

\* the selection and the month of a mounted calendar
CalendarView ==
    [selectionState |-> selectionState,
     currentMonth |-> currentMonth, currentYear |-> currentYear]

\* the same of a calendar that is not mounted
NoCalendar == [selectionState |-> NoSelection, currentMonth |-> 0, currentYear |-> 0]

\* the record of an event: what happened, the state it started from and, while
\* the picker stays closed after a Cancel and at its next opening, the calendar
\* that Cancel closed
Ev(op, date, tz) ==
    [op |-> op, date |-> date, tz |-> tz, pre |-> View,
     cancelled |-> IF op = "close" THEN CalendarView
                   ELSE IF ~isPickerOpen THEN event.cancelled
                   ELSE NoCalendar]

\* <<year, month>> of each date the user points at
MonthOfClickDate == [date \in ClickDates |-> YearMonthOf(date)]

\* line 387: the cells of the grid rendered for (y, m) hold the dates
\* new Date(y, m, day) of that month, so a click or a hover reaches the handlers
\* of the displayed month with a date of that month
IsCellOfMonth(date, y, m) == MonthOfClickDate[date] = <<y, m>>

MonthIndex(y, m) == y * 12 + m
TodayMonthIndex == MonthIndex(YearMonthOf(Today * TicksPerDay)[1],
                              YearMonthOf(Today * TicksPerDay)[2])

-----------------------------------------------------------------------------
(* DataDashboard: the key under which a range is cached, line numbers of *)
(* part_004                                                              *)

\* two digits of date-fns format: MM and dd
Pad2(n) == IF n < 10 THEN "0" \o ToString(n) ELSE ToString(n)

\* format(date, 'yyyy-MM-dd'): the local day of the date
FormatDay(date) ==
    LET Formatted(ym) ==
            ToString(ym[1]) \o "-" \o Pad2(ym[2] + 1) \o "-"
                \o Pad2(DayOf(date) - DayNumber(ym[1], ym[2], 1) + 1)
    IN  CHOOSE formatted \in {Formatted(ym) : ym \in {YearMonthOf(date)}} : TRUE

getCacheKey_IgnoresTimezone(start, end, tz) ==
    FormatDay(start) \o "_" \o FormatDay(end)

\* lines 22-24
getCacheKey(start, end, tz) ==
    FormatDay(start) \o "_" \o FormatDay(end) \o "_" \o tz

\* the ranges that the picker hands to handleDateRangeChange: the last seven
\* days, at each time of the day
ReportedDays == {<<Today - DefaultRangeDays, Today>>}
ReportedRanges ==
    {[startDate |-> days[1] * TicksPerDay + t, endDate |-> days[2] * TicksPerDay + t] :
        days \in ReportedDays, t \in 0..(TicksPerDay - 1)}

\* the keys of the ranges that the dashboard shows
DashboardKeys ==
    {getCacheKey(range.startDate, range.endDate, tz) :
        range \in ReportedRanges, tz \in Timezones}

-----------------------------------------------------------------------------
(* useDataCache, line numbers of src/hooks/useDataCache.ts *)

\* line 5
DEFAULT_CACHE_EXPIRY == 30 * 60 * 1000

\* the instants at which the cache is used: up to MaxClockOffset milliseconds
\* after its creation and after the default expiry time has passed since
MaxClockOffset == 1
ClockValues ==
    {base + off : base \in {0, DEFAULT_CACHE_EXPIRY}, off \in 0..MaxClockOffset}

\* the keys, the data and the expiry times that any caller uses
CacheKeys == {"2025-03-03_2025-03-10_Asia/Calcutta",
              "2025-03-03_2025-03-10_Europe/London"}
CacheData == {"rowsA", "rowsB"}
ExpiryTimes == {DEFAULT_CACHE_EXPIRY}

\* the keys that the cache object may hold
StoredKeys == CacheKeys \cup DashboardKeys

\* the null that getCachedData returns
Null == "null"

\* cache[key] of a key that the cache object does not have (undefined)
NoItem == [data |-> Null, timestamp |-> 0 - 1, expiry |-> 0 - 1]

\* the record of a call of the cache
CacheEv(op, key, result) ==
    [op |-> op, key |-> key, result |-> result, pre |-> cache, queued |-> queuedCache]

\* line 9: useState({})
InitCache ==
    /\ cache = [key \in StoredKeys |-> NoItem]
    /\ queuedCache = cache
    /\ dateNow = 0
    /\ cacheEvent = [op |-> "mount", key |-> "", result |-> Null,
                     pre |-> cache, queued |-> cache]

\* lines 13-18: the item that setCachedData builds at time clock
NewCacheItem(data, clock, expiryTime) ==
    [data |-> data, timestamp |-> clock, expiry |-> clock + expiryTime]

\* the update without the spread of prevCache
CacheWith_OnlyKey(prevCache, key, cacheItem) ==
    [other \in DOMAIN prevCache |-> IF other = key THEN cacheItem ELSE NoItem]

\* lines 20-23: the update that setCachedData queues, applied to prevCache
CacheWith(prevCache, key, cacheItem) == [prevCache EXCEPT ![key] = cacheItem]

setCachedData(key, data, expiryTime) ==
    /\ queuedCache' =
          CacheWith(queuedCache, key, NewCacheItem(data, dateNow, expiryTime))
    /\ cacheEvent' = CacheEv("set", key, Null)
    /\ UNCHANGED <<cache, dateNow>>
    /\ UNCHANGED pickerVars
    /\ UNCHANGED dashVars
    /\ UNCHANGED tableVars

\* CachedDataAt taking the item to be expired at its expiry time already
CachedDataAt_ExpiredAtExpiry(cacheItem, clock) ==
    IF cacheItem = NoItem \/ clock >= cacheItem.expiry THEN Null ELSE cacheItem.data

\* lines 28-35: what getCachedData returns for cache[key] at time clock
CachedDataAt(cacheItem, clock) ==
    IF cacheItem = NoItem \/ clock > cacheItem.expiry THEN Null ELSE cacheItem.data

\* getCachedData removing the item it finds expired
getCachedData_EvictsExpired(key) ==
    /\ cacheEvent' = CacheEv("get", key, CachedDataAt(cache[key], dateNow))
    /\ IF CachedDataAt(cache[key], dateNow) = Null
       THEN /\ cache' = [cache EXCEPT ![key] = NoItem]
            /\ queuedCache' = [queuedCache EXCEPT ![key] = NoItem]
       ELSE UNCHANGED <<cache, queuedCache>>
    /\ UNCHANGED dateNow
    /\ UNCHANGED pickerVars
    /\ UNCHANGED dashVars
    /\ UNCHANGED tableVars

getCachedData(key) ==
    /\ cacheEvent' = CacheEv("get", key, CachedDataAt(cache[key], dateNow))
    /\ UNCHANGED <<cache, queuedCache, dateNow>>
    /\ UNCHANGED pickerVars
    /\ UNCHANGED dashVars
    /\ UNCHANGED tableVars

clearCache ==
    /\ queuedCache' = [key \in StoredKeys |-> NoItem]
    /\ cacheEvent' = CacheEv("clear", "", Null)
    /\ UNCHANGED <<cache, dateNow>>
    /\ UNCHANGED pickerVars
    /\ UNCHANGED dashVars
    /\ UNCHANGED tableVars

\* lines 45-49: the update that removeCacheItem queues, applied to prevCache
CacheWithout(prevCache, key) == [prevCache EXCEPT ![key] = NoItem]

removeCacheItem(key) ==
    /\ queuedCache' = CacheWithout(queuedCache, key)
    /\ cacheEvent' = CacheEv("remove", key, Null)
    /\ UNCHANGED <<cache, dateNow>>
    /\ UNCHANGED pickerVars
    /\ UNCHANGED dashVars
    /\ UNCHANGED tableVars

\* time passes, to a later one of the instants
ClockAdvance ==
    /\ \E later \in ClockValues : later > dateNow /\ dateNow' = later
    /\ cacheEvent' = CacheEv("clock", "", Null)
    /\ UNCHANGED <<cache, queuedCache>>
    /\ UNCHANGED pickerVars
    /\ UNCHANGED dashVars
    /\ UNCHANGED tableVars

\* React renders the component that uses the hook: the queued updates become
\* the cache, and the component gets a getCachedData that reads it
RenderCache ==
    /\ queuedCache # cache
    /\ cache' = queuedCache
    /\ cacheEvent' = CacheEv("render", "", Null)
    /\ UNCHANGED <<queuedCache, dateNow>>
    /\ UNCHANGED pickerVars
    /\ UNCHANGED dashVars
    /\ UNCHANGED tableVars

-----------------------------------------------------------------------------
(* DataDashboard, line numbers of part_004.  fetchDataForDateRange is that *)
(* of src/services/api.ts.                                                 *)

\* how many calls of fetchDataForDateRange are awaited at a time
MaxInFlight == 2

\* line 16: useState([]); also what the server returns for a range without
\* events, and what fetchDataForDateRange of api.ts lines 13-63 returns when
\* a request fails
EmptyRows == "[]"

\* the rows that the server returns for a range, each a list of users
FetchedRows == CacheData \cup {EmptyRows}

\* line 65
FetchErrorMessage == "Failed to fetch data. Please try again."

\* cacheKey of line 30, for the state of the last render
CurrentCacheKey ==
    getCacheKey(dashboard.startDate, dashboard.endDate, dashboard.timezone)

\* the calls in flight without the one at position call
WithoutCall(calls, call) ==
    SubSeq(calls, 1, call - 1) \o SubSeq(calls, call + 1, Len(calls))

\* the record of an event of the dashboard: the key of the request, its
\* position among the calls in flight when it ended, the rows it delivered,
\* whether the request failed, and the state before the event
DashEv(op, key, call, rows, failed) ==
    [op |-> op, key |-> key, call |-> call, rows |-> rows, failed |-> failed,
     pre |-> dashboard, preCache |-> cache, preInFlight |-> inFlight]

\* lines 11-16, and the first render, whose effect (line 73) is still to run
InitDashboard ==
    /\ dashboard = [startDate |-> subDays(now, DefaultRangeDays), endDate |-> now,
                    timezone |-> "Asia/Calcutta",
                    loading |-> FALSE, error |-> Null, data |-> EmptyRows]
    /\ inFlight = <<>>
    /\ effectPending = TRUE
    /\ dashEvent = [op |-> "mount", key |-> "", call |-> 0, rows |-> Null,
                    failed |-> FALSE,
                    pre |-> dashboard, preCache |-> cache,
                    preInFlight |-> inFlight]

fetchData_SkipsCache ==
    /\ effectPending
    /\ \E cacheKey \in {CurrentCacheKey} :
         /\ dashboard' = [dashboard EXCEPT !.error = Null, !.loading = TRUE]
         /\ inFlight' = Append(inFlight, cacheKey)
         /\ dashEvent' = DashEv("fetchData", cacheKey, 0,
                                CachedDataAt(cache[cacheKey], dateNow), FALSE)
    /\ effectPending' = FALSE
    /\ UNCHANGED cacheVars
    /\ UNCHANGED pickerVars
    /\ UNCHANGED tableVars

\* lines 73-75 and 26-45: the effect calls the fetchData of the last render,
\* which runs up to its return of line 37 or to its await of line 45.  The
\* cache is read with the getCachedData of that render (CachedDataAt of its
\* cache); a cached value that is not null is truthy, [] included.
fetchData ==
    /\ effectPending
    /\ \E cacheKey \in {CurrentCacheKey} :
         \E cachedResult \in {CachedDataAt(cache[cacheKey], dateNow)} :
            /\ IF cachedResult # Null
               THEN /\ dashboard' = [dashboard EXCEPT !.error = Null,
                                                       !.data = cachedResult]
                    /\ UNCHANGED inFlight
               ELSE /\ dashboard' = [dashboard EXCEPT !.error = Null,
                                                       !.loading = TRUE]
                    /\ inFlight' = Append(inFlight, cacheKey)
            /\ dashEvent' = DashEv("fetchData", cacheKey, 0, cachedResult, FALSE)
    /\ effectPending' = FALSE
    /\ UNCHANGED cacheVars
    /\ UNCHANGED pickerVars
    /\ UNCHANGED tableVars

\* lines 78-82, called by the picker (onRangeSelection): the three setters and
\* the render that follows.  fetchData is a new function, and the effect is
\* due, unless the timezone is the same and the dates are the very Date
\* objects of the state (sameObjects), as when the picker reports the range
\* that it reported last.
handleDateRangeChange(start, end, tz, sameObjects) ==
    /\ ~effectPending
    /\ Len(inFlight) < MaxInFlight
    /\ sameObjects => start = dashboard.startDate /\ end = dashboard.endDate
    /\ dashboard' = [dashboard EXCEPT !.startDate = start, !.endDate = end,
                                      !.timezone = tz]
    /\ effectPending' = ~(sameObjects /\ tz = dashboard.timezone)
    /\ dashEvent' = DashEv("change", "", 0, Null, FALSE)
    /\ UNCHANGED inFlight
    /\ UNCHANGED cacheVars
    /\ UNCHANGED pickerVars
    /\ UNCHANGED tableVars

\* lines 59-63 and 67-68: one of the calls of fetchDataForDateRange in flight
\* resolves with rows, and the fetchData that awaits it goes on: it stores the
\* rows under its cacheKey, shows them and clears loading, and the component
\* renders with the new cache, so with a new fetchData.  failed tells that
\* the request failed inside fetchDataForDateRange, which api.ts lines 59-62
\* turn into a result of no rows.
FetchResolve(call, rows, failed) ==
    /\ ~effectPending
    /\ call \in DOMAIN inFlight
    /\ failed => rows = EmptyRows
    /\ inFlight' = WithoutCall(inFlight, call)
    /\ queuedCache' = CacheWith(queuedCache, inFlight[call],
                                NewCacheItem(rows, dateNow, DEFAULT_CACHE_EXPIRY))
    /\ cache' = queuedCache'
    /\ dashboard' = [dashboard EXCEPT !.data = rows, !.loading = FALSE]
    /\ effectPending' = TRUE
    /\ dashEvent' = DashEv("resolve", inFlight[call], call, rows, failed)
    /\ UNCHANGED <<dateNow, cacheEvent>>
    /\ UNCHANGED pickerVars
    /\ UNCHANGED tableVars

\* lines 61-68: the call rejects, as fetchDataForDateRange of api.ts lines
\* 79-120 does when the request fails
FetchReject(call) ==
    /\ ~effectPending
    /\ call \in DOMAIN inFlight
    /\ inFlight' = WithoutCall(inFlight, call)
    /\ dashboard' = [dashboard EXCEPT !.error = FetchErrorMessage,
                                      !.loading = FALSE]
    /\ effectPending' = FALSE
    /\ dashEvent' = DashEv("reject", inFlight[call], call, Null, TRUE)
    /\ UNCHANGED cacheVars
    /\ UNCHANGED pickerVars
    /\ UNCHANGED tableVars

\* time passes while the dashboard is shown: up to the instant at which the
\* rows cached at the start expire, and to the millisecond after it
DashboardClockValues == {0, DEFAULT_CACHE_EXPIRY, DEFAULT_CACHE_EXPIRY + 1}

DashboardClockAdvance ==
    /\ ~effectPending
    /\ \E later \in DashboardClockValues : later > dateNow /\ dateNow' = later
    /\ dashEvent' = DashEv("clock", "", 0, Null, FALSE)
    /\ UNCHANGED <<cache, queuedCache, cacheEvent>>
    /\ UNCHANGED <<dashboard, inFlight, effectPending>>
    /\ UNCHANGED pickerVars
    /\ UNCHANGED tableVars

-----------------------------------------------------------------------------
(* EnhancedDataTable, line numbers of src/components/EnhancedDataTable.tsx. *)
(* DataTable of part_003 has the same filter effect, handlers and sortData. *)

\* how many rows the data prop has at most
MaxRows == 3

\* The values of the fields of a row, with their typeof.  A string is the
\* sequence of its characters.
Str(chars) == [type |-> "string", chars |-> chars, num |-> 0]
Num(n) == [type |-> "number", chars |-> <<>>, num |-> n]
Undefined == [type |-> "undefined", chars |-> <<>>, num |-> 0]

\* String.prototype.toLowerCase, for the characters used
LowerChar(c) == IF c = "A" THEN "a" ELSE IF c = "B" THEN "b" ELSE c
toLowerCase(chars) == [i \in 1..Len(chars) |-> LowerChar(chars[i])]

\* String.prototype.includes
includes(chars, searchString) ==
    \E i \in 0..(Len(chars) - Len(searchString)) :
        SubSeq(chars, i + 1, i + Len(searchString)) = searchString

\* Number.prototype.toString, for the integers from 0
DecimalDigits == <<"0", "1", "2", "3", "4", "5", "6", "7", "8", "9">>
RECURSIVE toString(_)
toString(n) ==
    IF n < 10 THEN <<DecimalDigits[n + 1]>>
    ELSE toString(n \div 10) \o <<DecimalDigits[(n % 10) + 1]>>

\* String(value), lines 125 and 132
String(value) ==
    IF value.type = "string" THEN value.chars
    ELSE IF value.type = "number" THEN toString(value.num)
    ELSE <<"u", "n", "d", "e", "f", "i", "n", "e", "d">>

\* String.prototype.localeCompare, for the characters used.  The collation
\* orders digits before letters and letters alphabetically whatever their case;
\* strings that differ in case only are ordered by their first such
\* difference, lower case first.
CollationOrder ==
    <<"0", "1", "2", "3", "4", "5", "6", "7", "8", "9",
      "a", "b", "d", "e", "f", "i", "n", "u">>
PrimaryWeight(c) ==
    CHOOSE w \in DOMAIN CollationOrder : CollationOrder[w] = LowerChar(c)
CaseWeight(c) == IF c = LowerChar(c) THEN 0 ELSE 1

\* -1, 0 or 1 as the sequence of numbers x is before, equal to or after y
CompareWeights(x, y) ==
    LET differ == {i \in 1..Len(x) : i <= Len(y) /\ x[i] # y[i]}
    IN  IF differ # {}
        THEN LET first == CHOOSE i \in differ : \A j \in differ : i <= j
             IN  IF x[first] < y[first] THEN 0 - 1 ELSE 1
        ELSE IF Len(x) < Len(y) THEN 0 - 1
        ELSE IF Len(x) > Len(y) THEN 1
        ELSE 0

localeCompare(chars, that) ==
    LET primary == CompareWeights([i \in 1..Len(chars) |-> PrimaryWeight(chars[i])],
                                  [i \in 1..Len(that) |-> PrimaryWeight(that[i])])
    IN  IF primary # 0 THEN primary
        ELSE CompareWeights([i \in 1..Len(chars) |-> CaseWeight(chars[i])],
                            [i \in 1..Len(that) |-> CaseWeight(that[i])])

\* The rows that the server returns.  obj tells the objects apart; id is a
\* number, employee and date are strings and location is a string or missing.
\* Two rows have the same id, two the same employee and the same date; the
\* locations differ.
ServerRows ==
    {[obj |-> 1, id |-> Num(1), employee |-> Str(<<"a", "b">>),
      date |-> Str(<<"2">>), location |-> Str(<<"b">>)],
     [obj |-> 2, id |-> Num(12), employee |-> Str(<<"A", "b">>),
      date |-> Str(<<"1">>), location |-> Undefined],
     [obj |-> 3, id |-> Num(12), employee |-> Str(<<"a", "b">>),
      date |-> Str(<<"2">>), location |-> Str(<<"B">>)]}

\* the values of the data prop: up to MaxRows of these rows, in any order
DataProps ==
    {data \in UNION {[1..n -> ServerRows] : n \in 0..MaxRows} :
        \A i, j \in DOMAIN data : data[i] = data[j] => i = j}

\* what is typed into the search field, and the columns searched and sorted.
\* The search menu of EnhancedDataTable (lines 203-206) has columns of strings;
\* a DataTable is also searched by a column of numbers (searchableColumns).
SearchTerms == {<<>>, <<"a">>, <<"B">>, <<"2">>}
SearchColumns == {"id", "employee", "location"}
SortColumns == {"id", "employee", "location"}

\* the record of an event of the table
TableEv(op) == [op |-> op, pre |-> table]

\* lines 46-50: the table mounts with the data of the dashboard, which is []
InitTable ==
    /\ table = [data |-> <<>>, filteredData |-> <<>>, searchTerm |-> <<>>,
                searchColumn |-> "employee", orderBy |-> "date", order |-> "desc"]
    /\ tableEvent = [op |-> "mount", pre |-> table]

FilterTest_CaseSensitive(item, searchTerm, searchColumn) ==
    LET value == item[searchColumn]
    IN  IF value.type = "string" THEN includes(value.chars, searchTerm)
        ELSE IF value.type = "number" THEN includes(toString(value.num), searchTerm)
        ELSE FALSE

\* lines 60-68: the test of data.filter
FilterTest(item, searchTerm, searchColumn) ==
    LET value == item[searchColumn]
    IN  IF value.type = "string"
        THEN includes(toLowerCase(value.chars), toLowerCase(searchTerm))
        ELSE IF value.type = "number"
        THEN includes(toString(value.num), searchTerm)
        ELSE FALSE

\* only the first row that passes the test is kept
FilterEffect_FirstMatchOnly(data, searchTerm, searchColumn) ==
    IF searchTerm = <<>> THEN data
    ELSE LET Test(item) == FilterTest(item, searchTerm, searchColumn)
             passing == SelectSeq(data, Test)
         IN  IF passing = <<>> THEN <<>> ELSE <<passing[1]>>

\* lines 54-71: what the effect sets filteredData to
FilterEffect(data, searchTerm, searchColumn) ==
    IF searchTerm = <<>> THEN data
    ELSE LET Test(item) == FilterTest(item, searchTerm, searchColumn)
         IN  SelectSeq(data, Test)

\* the state after the render that follows a change of data, searchTerm or
\* searchColumn, and the effect of that render
AfterEffect(state) ==
    [state EXCEPT !.filteredData =
        FilterEffect(state.data, state.searchTerm, state.searchColumn)]

CompareFunction_DescLikeAscForNumbers(aValue, bValue, order) ==
    IF aValue.type = "string" /\ bValue.type = "string"
    THEN IF order = "asc" THEN localeCompare(aValue.chars, bValue.chars)
         ELSE localeCompare(bValue.chars, aValue.chars)
    ELSE IF aValue.type = "number" /\ bValue.type = "number"
    THEN aValue.num - bValue.num
    ELSE IF order = "asc" THEN localeCompare(String(aValue), String(bValue))
         ELSE localeCompare(String(bValue), String(aValue))

\* lines 119-133: the compare function given to sort
CompareFunction(aValue, bValue, order) ==
    IF order = "asc"
    THEN IF aValue.type = "string" /\ bValue.type = "string"
         THEN localeCompare(aValue.chars, bValue.chars)
         ELSE IF aValue.type = "number" /\ bValue.type = "number"
         THEN aValue.num - bValue.num
         ELSE localeCompare(String(aValue), String(bValue))
    ELSE IF aValue.type = "string" /\ bValue.type = "string"
         THEN localeCompare(bValue.chars, aValue.chars)
         ELSE IF aValue.type = "number" /\ bValue.type = "number"
         THEN bValue.num - aValue.num
         ELSE localeCompare(String(bValue), String(aValue))

\* sorted with item put before the elements that compare equal to it
sortData_EqualRowsReversed(data, orderBy, order) ==
    LET RECURSIVE Sorted(_)
        Sorted(n) ==
            IF n = 0 THEN <<>>
            ELSE LET before == Sorted(n - 1)
                     item == data[n]
                     k == Cardinality({j \in DOMAIN before :
                             CompareFunction(before[j][orderBy], item[orderBy], order) < 0})
                 IN  SubSeq(before, 1, k) \o <<item>> \o SubSeq(before, k + 1, Len(before))
    IN  Sorted(Len(data))

\* lines 114-135: [...data].sort(compare).  Array.prototype.sort is stable
\* (ECMAScript 2019): it gives the one order in which no element is after an
\* element that compares greater and elements that compare equal are in their
\* order in data.  Sorted(n) is that order of the first n elements: the n-th
\* goes after the elements that are not greater.
sortData(data, orderBy, order) ==
    LET RECURSIVE Sorted(_)
        Sorted(n) ==
            IF n = 0 THEN <<>>
            ELSE LET before == Sorted(n - 1)
                     item == data[n]
                     k == Cardinality({j \in DOMAIN before :
                             CompareFunction(before[j][orderBy], item[orderBy], order) <= 0})
                 IN  SubSeq(before, 1, k) \o <<item>> \o SubSeq(before, k + 1, Len(before))
    IN  Sorted(Len(data))

\* line 138
sortedData == sortData(table.filteredData, table.orderBy, table.order)

\* lines 74-76
handleSearchChange(value) ==
    /\ table' = AfterEffect([table EXCEPT !.searchTerm = value])
    /\ tableEvent' = TableEv("search")
    /\ UNCHANGED pickerVars
    /\ UNCHANGED cacheVars
    /\ UNCHANGED dashVars

\* lines 79-81
handleSearchColumnChange(value) ==
    /\ table' = AfterEffect([table EXCEPT !.searchColumn = value])
    /\ tableEvent' = TableEv("searchColumn")
    /\ UNCHANGED pickerVars
    /\ UNCHANGED cacheVars
    /\ UNCHANGED dashVars

\* the record of a click on the header of a column
SortEv(property) == [op |-> "sort", property |-> property, pre |-> table]

\* lines 239-298: the headers of the table, and those whose sort label is
\* active
HeaderColumns == {"id", "employee", "position", "date", "location", "status"}
ActiveColumns == {column \in HeaderColumns : table.orderBy = column}

\* handleRequestSort without the test of the column
handleRequestSort_TogglesAnyColumn(property) ==
    /\ LET isAsc == table.order = "asc"
       IN  table' = [table EXCEPT !.order = IF isAsc THEN "desc" ELSE "asc",
                                  !.orderBy = property]
    /\ tableEvent' = SortEv(property)
    /\ UNCHANGED pickerVars
    /\ UNCHANGED cacheVars
    /\ UNCHANGED dashVars

\* lines 84-88
handleRequestSort(property) ==
    /\ LET isAsc == table.orderBy = property /\ table.order = "asc"
       IN  table' = [table EXCEPT !.order = IF isAsc THEN "desc" ELSE "asc",
                                  !.orderBy = property]
    /\ tableEvent' = SortEv(property)
    /\ UNCHANGED pickerVars
    /\ UNCHANGED cacheVars
    /\ UNCHANGED dashVars

\* the dashboard renders the table with other data (part_004 lines 114-117)
DataPropChange(data) ==
    /\ data # table.data
    /\ table' = AfterEffect([table EXCEPT !.data = data])
    /\ tableEvent' = TableEv("data")
    /\ UNCHANGED pickerVars
    /\ UNCHANGED cacheVars
    /\ UNCHANGED dashVars

-----------------------------------------------------------------------------
(* CustomDateRangePicker *)

\* lines 100-113: the state after the first render; DataDashboard passes
\* maxSelectionRangeInDays = 10 and its own initial timezone
Init ==
    /\ now \in {Today * TicksPerDay + t : t \in 0..(TicksPerDay - 1)}
    /\ maxSelectionRangeInDays = DashboardMaxSelectionRangeInDays
    /\ selectedRange = [startDate |-> subDays(now, DefaultRangeDays), endDate |-> now]
    /\ timezone = "Asia/Calcutta"
    /\ isPickerOpen = FALSE
    /\ currentMonth = 0
    /\ currentYear = 0
    /\ hoverDate = NoDate
    /\ selectionState = NoSelection
    /\ event = [op |-> "mount", date |-> NoDate, tz |-> "", pre |-> View,
                cancelled |-> NoCalendar]
    /\ onSelectionCalls = <<>>
    /\ onRangeSelectionCalls = <<>>
    /\ InitCache
    /\ InitDashboard
    /\ InitTable

\* lines 343-354: the state of a Calendar the Popover has just mounted
MountCalendar ==
    /\ currentYear' = YearMonthOf(now)[1]
    /\ currentMonth' = YearMonthOf(now)[2]
    /\ hoverDate' = NoDate
    /\ selectionState' = [startDate |-> selectedRange.startDate,
                          endDate |-> selectedRange.endDate,
                          selecting |-> FALSE]

\* the Popover renders nothing while closed: the Calendar and its state are gone
UnmountCalendar ==
    /\ currentYear' = 0
    /\ currentMonth' = 0
    /\ hoverDate' = NoDate
    /\ selectionState' = NoSelection

\* lines 149 and 170: the picker holds a complete range
HasCompleteRange(range) == range.startDate # NoDate /\ range.endDate # NoDate

\* the host callback, as called with (startDate, endDate, tz)
RangeCall(startDate, endDate, tz) ==
    [startDate |-> startDate, endDate |-> endDate, timezone |-> tz]

\* the calls of onRangeSelection that handleRangeSelection makes
RangeSelectionNotifies(startDate, endDate, tz) == <<RangeCall(startDate, endDate, tz)>>

handleRangeSelection_DropsEnd(startDate, endDate) ==
    /\ selectedRange' = [startDate |-> startDate, endDate |-> NoDate]
    /\ onRangeSelectionCalls' = RangeSelectionNotifies(startDate, endDate, timezone)

handleRangeSelection(startDate, endDate) ==
    /\ selectedRange' = [startDate |-> startDate, endDate |-> endDate]
    /\ onRangeSelectionCalls' = RangeSelectionNotifies(startDate, endDate, timezone)

\* TimezoneChangeNotifies passing the timezone state, stale until re-render
TimezoneChangeNotifies_StaleTimezone(range, newTimezone) ==
    IF HasCompleteRange(range)
    THEN <<RangeCall(range.startDate, range.endDate, timezone)>>
    ELSE <<>>

\* the calls of onRangeSelection that handleTimezoneChange makes
TimezoneChangeNotifies(range, newTimezone) ==
    IF HasCompleteRange(range)
    THEN <<RangeCall(range.startDate, range.endDate, newTimezone)>>
    ELSE <<>>

handleTimezoneChange(newTimezone) ==
    /\ timezone' = newTimezone
    /\ onRangeSelectionCalls' = TimezoneChangeNotifies(selectedRange, newTimezone)
    /\ onSelectionCalls' = <<>>
    /\ event' = Ev("timezone", NoDate, newTimezone)
    /\ UNCHANGED cacheVars
    /\ UNCHANGED dashVars
    /\ UNCHANGED tableVars
    /\ UNCHANGED <<now, maxSelectionRangeInDays, selectedRange, isPickerOpen,
                   currentMonth, currentYear, hoverDate, selectionState>>

handleOpenPicker ==
    /\ ~disabled
    /\ isPickerOpen' = TRUE
    /\ IF isPickerOpen
       THEN UNCHANGED <<currentMonth, currentYear, hoverDate, selectionState>>
       ELSE MountCalendar
    /\ onSelectionCalls' = <<>>
    /\ onRangeSelectionCalls' = <<>>
    /\ event' = Ev("open", NoDate, "")
    /\ UNCHANGED cacheVars
    /\ UNCHANGED dashVars
    /\ UNCHANGED tableVars
    /\ UNCHANGED <<now, maxSelectionRangeInDays, selectedRange, timezone>>

\* CloseNotifies reporting the picker's range as Apply does
CloseNotifies_LikeApply(range, tz) ==
    IF HasCompleteRange(range)
    THEN <<RangeCall(range.startDate, range.endDate, tz)>>
    ELSE <<>>

\* lines 163-166: the calls of onRangeSelection that handleClosePicker makes
CloseNotifies(range, tz) == <<>>

\* Cancel, a click away from the popover, and the Popover's onClose
handleClosePicker ==
    /\ isPickerOpen
    /\ isPickerOpen' = FALSE
    /\ UnmountCalendar
    /\ onSelectionCalls' = <<>>
    /\ onRangeSelectionCalls' = CloseNotifies(selectedRange, timezone)
    /\ event' = Ev("close", NoDate, "")
    /\ UNCHANGED cacheVars
    /\ UNCHANGED dashVars
    /\ UNCHANGED tableVars
    /\ UNCHANGED <<now, maxSelectionRangeInDays, selectedRange, timezone>>

\* line 170: Apply acts when the picker's own range is complete
ApplyActs(range) == HasCompleteRange(range)

handleApply ==
    /\ isPickerOpen
    /\ IF ApplyActs(selectedRange)
       THEN /\ onRangeSelectionCalls' =
                   <<RangeCall(selectedRange.startDate, selectedRange.endDate, timezone)>>
            /\ isPickerOpen' = FALSE
            /\ UnmountCalendar
       ELSE /\ onRangeSelectionCalls' = <<>>
            /\ UNCHANGED <<isPickerOpen, currentMonth, currentYear, hoverDate,
                           selectionState>>
    /\ onSelectionCalls' = <<>>
    /\ event' = Ev("apply", NoDate, "")
    /\ UNCHANGED cacheVars
    /\ UNCHANGED dashVars
    /\ UNCHANGED tableVars
    /\ UNCHANGED <<now, maxSelectionRangeInDays, selectedRange, timezone>>

-----------------------------------------------------------------------------
(* Calendar *)

\* lines 357-363: the effect that copies the selectedRange prop into the state
SelectionFromProps_KeepsSelecting(range) ==
    [startDate |-> range.startDate, endDate |-> range.endDate,
     selecting |-> selectionState.selecting]

SelectionFromProps(range) ==
    [startDate |-> range.startDate, endDate |-> range.endDate, selecting |-> FALSE]

\* CommitNotifies forgetting line 469
CommitNotifies_Silent(startDate, endDate) == <<>>

\* the calls of onSelection that a click completing the range [startDate, endDate] makes
CommitNotifies(startDate, endDate) ==
    <<[startDate |-> startDate, endDate |-> endDate]>>

\* a click on the cell of date; the cell itself forwards the click only when it
\* is not disabled (line 679) and the handler checks again (line 436)
handleDateClick(date) ==
    /\ isPickerOpen
    /\ IsCellOfMonth(date, currentYear, currentMonth)
    /\ event' = Ev("click", date, "")
    /\ UNCHANGED cacheVars
    /\ UNCHANGED dashVars
    /\ UNCHANGED tableVars
    /\ IF isDateDisabled(date, now)
       THEN /\ onSelectionCalls' = <<>>
            /\ onRangeSelectionCalls' = <<>>
            /\ UNCHANGED <<selectionState, selectedRange>>
       ELSE IF StartsNewSelection(selectionState)
       THEN /\ selectionState' = [startDate |-> date, endDate |-> NoDate,
                                  selecting |-> TRUE]
            /\ onSelectionCalls' = <<>>
            /\ onRangeSelectionCalls' = <<>>
            /\ UNCHANGED selectedRange
       ELSE IF CompletesSelection(selectionState)
       THEN LET range == OrderedRange(selectionState.startDate, date)
                startDate == range[1]
                endDate == range[2]
                daysDiff == differenceInDays(endDate, startDate)
            IN  IF ExceedsMaxRange(daysDiff, maxSelectionRangeInDays)
                THEN \* alert(...) and return
                     /\ onSelectionCalls' = <<>>
                     /\ onRangeSelectionCalls' = <<>>
                     /\ UNCHANGED <<selectionState, selectedRange>>
                ELSE \* onSelection is the picker's handleRangeSelection; the new
                     \* selectedRange prop then re-runs the effect of line 357,
                     \* which stores the same range setSelectionState just stored
                     /\ onSelectionCalls' = CommitNotifies(startDate, endDate)
                     /\ handleRangeSelection(startDate, endDate)
                     /\ selectionState' = SelectionFromProps(selectedRange')
       ELSE /\ onSelectionCalls' = <<>>
            /\ onRangeSelectionCalls' = <<>>
            /\ UNCHANGED <<selectionState, selectedRange>>
    /\ UNCHANGED <<now, maxSelectionRangeInDays, timezone, isPickerOpen,
                   currentMonth, currentYear, hoverDate>>

\* the mouse entering the cell of date (line 680 guards the handler)
handleDateHover(date) ==
    /\ isPickerOpen
    /\ IsCellOfMonth(date, currentYear, currentMonth)
    /\ event' = Ev("hover", date, "")
    /\ UNCHANGED cacheVars
    /\ UNCHANGED dashVars
    /\ UNCHANGED tableVars
    /\ IF ~isDateDisabled(date, now) /\ RecordsHover(selectionState)
       THEN hoverDate' = date
       ELSE UNCHANGED hoverDate
    /\ onSelectionCalls' = <<>>
    /\ onRangeSelectionCalls' = <<>>
    /\ UNCHANGED <<now, maxSelectionRangeInDays, selectedRange, timezone,
                   isPickerOpen, currentMonth, currentYear, selectionState>>

\* <<year, month>> shown after the previous-month button
PrevMonth_KeepsYear(y, m) == IF m = 0 THEN <<y, 11>> ELSE <<y, m - 1>>

PrevMonth(y, m) == IF m = 0 THEN <<y - 1, 11>> ELSE <<y, m - 1>>

\* <<year, month>> shown after the next-month button
NextMonth(y, m) == IF m = 11 THEN <<y + 1, 0>> ELSE <<y, m + 1>>

handlePrevMonth ==
    /\ isPickerOpen
    /\ MonthIndex(currentYear, currentMonth) > TodayMonthIndex - MaxNav
    /\ currentYear' = PrevMonth(currentYear, currentMonth)[1]
    /\ currentMonth' = PrevMonth(currentYear, currentMonth)[2]
    /\ event' = Ev("prev", NoDate, "")
    /\ UNCHANGED cacheVars
    /\ UNCHANGED dashVars
    /\ UNCHANGED tableVars
    /\ onSelectionCalls' = <<>>
    /\ onRangeSelectionCalls' = <<>>
    /\ UNCHANGED <<now, maxSelectionRangeInDays, selectedRange, timezone,
                   isPickerOpen, hoverDate, selectionState>>

handleNextMonth ==
    /\ isPickerOpen
    /\ MonthIndex(currentYear, currentMonth) < TodayMonthIndex + MaxNav
    /\ currentYear' = NextMonth(currentYear, currentMonth)[1]
    /\ currentMonth' = NextMonth(currentYear, currentMonth)[2]
    /\ event' = Ev("next", NoDate, "")
    /\ UNCHANGED cacheVars
    /\ UNCHANGED dashVars
    /\ UNCHANGED tableVars
    /\ onSelectionCalls' = <<>>
    /\ onRangeSelectionCalls' = <<>>
    /\ UNCHANGED <<now, maxSelectionRangeInDays, selectedRange, timezone,
                   isPickerOpen, hoverDate, selectionState>>

-----------------------------------------------------------------------------
(* The environment *)

\* time passes
Tick ==
    /\ now < Today * TicksPerDay + (TicksPerDay - 1) + MaxTicks
    /\ now' = now + 1
    /\ event' = Ev("tick", NoDate, "")
    /\ UNCHANGED cacheVars
    /\ UNCHANGED dashVars
    /\ UNCHANGED tableVars
    /\ onSelectionCalls' = <<>>
    /\ onRangeSelectionCalls' = <<>>
    /\ UNCHANGED <<maxSelectionRangeInDays, selectedRange, timezone, isPickerOpen,
                   currentMonth, currentYear, hoverDate, selectionState>>

DateClick == \E date \in ClickDates : handleDateClick(date)
DateHover == \E date \in ClickDates : handleDateHover(date)
TimezoneChange == \E newTimezone \in Timezones : handleTimezoneChange(newTimezone)

Next ==
    \/ Tick
    \/ handleOpenPicker
    \/ handleClosePicker
    \/ handleApply
    \/ TimezoneChange
    \/ DateClick
    \/ DateHover
    \/ handlePrevMonth
    \/ handleNextMonth

Spec == Init /\ [][Next]_vars

-----------------------------------------------------------------------------
(* The calendar under a host that holds no range yet.  The selectedRange prop *)
(* is a DateRange, whose dates may be null: InitNoRange also starts the       *)
(* picker with {startDate: null, endDate: null}, which makes the calendar     *)
(* mount in its Empty state.                                                  *)

InitNoRange ==
    /\ now \in {Today * TicksPerDay + t : t \in 0..(TicksPerDay - 1)}
    /\ maxSelectionRangeInDays = DashboardMaxSelectionRangeInDays
    /\ selectedRange \in
          {[startDate |-> subDays(now, DefaultRangeDays), endDate |-> now],
           [startDate |-> NoDate, endDate |-> NoDate]}
    /\ timezone = "Asia/Calcutta"
    /\ isPickerOpen = FALSE
    /\ currentMonth = 0
    /\ currentYear = 0
    /\ hoverDate = NoDate
    /\ selectionState = NoSelection
    /\ event = [op |-> "mount", date |-> NoDate, tz |-> "", pre |-> View,
                cancelled |-> NoCalendar]
    /\ onSelectionCalls = <<>>
    /\ onRangeSelectionCalls = <<>>
    /\ InitCache
    /\ InitDashboard
    /\ InitTable

SpecNoRange == InitNoRange /\ [][Next]_vars

-----------------------------------------------------------------------------
(* The picker under hosts that configure the largest span.                   *)
(* maxSelectionRangeInDays is a prop of the picker (line 91): a number of     *)
(* days, here none, one, or the ten of DataDashboard.                         *)

ConfiguredMaxDays == {0, 1, DashboardMaxSelectionRangeInDays}

InitConfigured ==
    /\ now = Today * TicksPerDay
    /\ maxSelectionRangeInDays \in ConfiguredMaxDays
    /\ selectedRange = [startDate |-> subDays(now, DefaultRangeDays), endDate |-> now]
    /\ timezone = "Asia/Calcutta"
    /\ isPickerOpen = FALSE
    /\ currentMonth = 0
    /\ currentYear = 0
    /\ hoverDate = NoDate
    /\ selectionState = NoSelection
    /\ event = [op |-> "mount", date |-> NoDate, tz |-> "", pre |-> View,
                cancelled |-> NoCalendar]
    /\ onSelectionCalls = <<>>
    /\ onRangeSelectionCalls = <<>>
    /\ InitCache
    /\ InitDashboard
    /\ InitTable

SpecConfigured == InitConfigured /\ [][Next]_vars

-----------------------------------------------------------------------------
(* The calendar grid, over the months the user can navigate to.  The calendar *)
(* is open and the user only presses the previous-month and next-month        *)
(* buttons, which the code never disables.                                    *)

\* the months shown lie at most MaxGridNav months from the current month
MaxGridNav == 60

\* line 525: the grid that the calendar renders
calendarGrid == generateCalendarGrid(currentYear, currentMonth)

\* lines 343-354: the picker has just been opened
InitGrid ==
    /\ now \in {Today * TicksPerDay + t : t \in 0..(TicksPerDay - 1)}
    /\ maxSelectionRangeInDays = DashboardMaxSelectionRangeInDays
    /\ selectedRange = [startDate |-> subDays(now, DefaultRangeDays), endDate |-> now]
    /\ timezone = "Asia/Calcutta"
    /\ isPickerOpen = TRUE
    /\ currentYear = YearMonthOf(now)[1]
    /\ currentMonth = YearMonthOf(now)[2]
    /\ hoverDate = NoDate
    /\ selectionState = SelectionFromProps(selectedRange)
    /\ event = [op |-> "open", date |-> NoDate, tz |-> "",
                pre |-> [View EXCEPT !.isPickerOpen = FALSE,
                                     !.selectionState = NoSelection,
                                     !.currentMonth = 0, !.currentYear = 0],
                cancelled |-> NoCalendar]
    /\ onSelectionCalls = <<>>
    /\ onRangeSelectionCalls = <<>>
    /\ InitCache
    /\ InitDashboard
    /\ InitTable

GridPrevMonth ==
    /\ isPickerOpen
    /\ MonthIndex(currentYear, currentMonth) > TodayMonthIndex - MaxGridNav
    /\ currentYear' = PrevMonth(currentYear, currentMonth)[1]
    /\ currentMonth' = PrevMonth(currentYear, currentMonth)[2]
    /\ event' = Ev("prev", NoDate, "")
    /\ UNCHANGED cacheVars
    /\ UNCHANGED dashVars
    /\ UNCHANGED tableVars
    /\ onSelectionCalls' = <<>>
    /\ onRangeSelectionCalls' = <<>>
    /\ UNCHANGED <<now, maxSelectionRangeInDays, selectedRange, timezone,
                   isPickerOpen, hoverDate, selectionState>>

GridNextMonth ==
    /\ isPickerOpen
    /\ MonthIndex(currentYear, currentMonth) < TodayMonthIndex + MaxGridNav
    /\ currentYear' = NextMonth(currentYear, currentMonth)[1]
    /\ currentMonth' = NextMonth(currentYear, currentMonth)[2]
    /\ event' = Ev("next", NoDate, "")
    /\ UNCHANGED cacheVars
    /\ UNCHANGED dashVars
    /\ UNCHANGED tableVars
    /\ onSelectionCalls' = <<>>
    /\ onRangeSelectionCalls' = <<>>
    /\ UNCHANGED <<now, maxSelectionRangeInDays, selectedRange, timezone,
                   isPickerOpen, hoverDate, selectionState>>

NextGrid == GridPrevMonth \/ GridNextMonth

SpecGrid == InitGrid /\ [][NextGrid]_vars

-----------------------------------------------------------------------------
(* The cache under callers that set, get, remove and clear at any time, each *)
(* with the functions of the last render                                      *)

SetCachedData ==
    \E key \in CacheKeys, data \in CacheData, expiryTime \in ExpiryTimes :
        setCachedData(key, data, expiryTime)
GetCachedData == \E key \in CacheKeys : getCachedData(key)
RemoveCacheItem == \E key \in CacheKeys : removeCacheItem(key)

NextCache ==
    \/ ClockAdvance
    \/ SetCachedData
    \/ GetCachedData
    \/ clearCache
    \/ RemoveCacheItem
    \/ RenderCache

\* the dashboard has just been mounted, at the start of a day
InitCacheCallers == Init /\ now = Today * TicksPerDay

SpecCache == InitCacheCallers /\ [][NextCache]_vars

-----------------------------------------------------------------------------
(* The dashboard under a picker that reports ranges and timezones, a server *)
(* that answers or fails, and a clock                                       *)

HandleDateRangeChange ==
    \E range \in ReportedRanges, tz \in Timezones, sameObjects \in BOOLEAN :
        handleDateRangeChange(range.startDate, range.endDate, tz, sameObjects)
FetchResolves ==
    \E call \in 1..MaxInFlight, rows \in FetchedRows, failed \in BOOLEAN :
        FetchResolve(call, rows, failed)
FetchRejects == \E call \in 1..MaxInFlight : FetchReject(call)

NextDashboard ==
    \/ fetchData
    \/ HandleDateRangeChange
    \/ FetchResolves
    \/ FetchRejects
    \/ DashboardClockAdvance

SpecDashboard == InitCacheCallers /\ [][NextDashboard]_vars

\* The same dashboard with what its scheduling gives: the effect of a render
\* runs after the render (line 73), and every call of fetchDataForDateRange
\* that is awaited (line 59) ends, with rows or with a failure.
SpecDashboardFair ==
    /\ SpecDashboard
    /\ WF_vars(fetchData)
    /\ WF_vars(FetchResolves \/ FetchRejects)

-----------------------------------------------------------------------------
(* The table under a user who searches and sorts and a dashboard that passes *)
(* other data                                                                *)

HandleSearchChange == \E value \in SearchTerms : handleSearchChange(value)
HandleSearchColumnChange ==
    \E value \in SearchColumns : handleSearchColumnChange(value)
HandleRequestSort == \E property \in SortColumns : handleRequestSort(property)
DataPropChanges == \E data \in DataProps : DataPropChange(data)

NextTable ==
    \/ HandleSearchChange
    \/ HandleSearchColumnChange
    \/ HandleRequestSort
    \/ DataPropChanges

SpecTable == InitCacheCallers /\ [][NextTable]_vars

-----------------------------------------------------------------------------
(* Vocabulary of the properties *)

\* the states of the selection state machine, of a mounted calendar
Empty(state) == state.startDate = NoDate /\ state.endDate = NoDate
Anchored(state) == state.startDate # NoDate /\ state.endDate = NoDate
Committed(state) == state.startDate # NoDate /\ state.endDate # NoDate

Min(a, b) == IF a <= b THEN a ELSE b
Max(a, b) == IF a >= b THEN a ELSE b

\* the span of a range in calendar days
DaysBetween(lo, hi) == DayOf(hi) - DayOf(lo)

\* the past-days rule as the design states it: the day lies more than
\* MAX_PAST_DAYS calendar days before the current day
BeyondPastLimit(date, clock) == DayOf(date) < DayOf(clock) - MAX_PAST_DAYS

\* the last event was a click on a cell of the mounted calendar
Clicked == event.op = "click" /\ event.pre.isPickerOpen
Hovered == event.op = "hover" /\ event.pre.isPickerOpen

\* the last event was a click on a non-disabled date in state Anchored
ClickedSecond ==
    /\ Clicked
    /\ Anchored(event.pre.selectionState)
    /\ ~isDateDisabled(event.date, event.pre.now)

\* the ends of the range that click asks for
ClickLo == Min(event.pre.selectionState.startDate, event.date)
ClickHi == Max(event.pre.selectionState.startDate, event.date)

NoCallback == onSelectionCalls = <<>> /\ onRangeSelectionCalls = <<>>

-----------------------------------------------------------------------------
(* Properties of the selection state machine *)

\* C1: a click on a non-disabled date in state Anchored(s) whose span from s,
\* in calendar days, exceeds maxSelectionRangeInDays leaves the selection state
\* as it was (still Anchored(s), no end date) and calls neither onSelection nor
\* onRangeSelection.
C1_OverlongSpanRejected ==
    (ClickedSecond /\ DaysBetween(ClickLo, ClickHi) > maxSelectionRangeInDays)
        => /\ selectionState = event.pre.selectionState
           /\ Anchored(selectionState)
           /\ selectedRange = event.pre.selectedRange
           /\ NoCallback

\* an eleven-day span has been asked for and refused
C1_Witness ==
    /\ ClickedSecond
    /\ DaysBetween(ClickLo, ClickHi) = maxSelectionRangeInDays + 1
    /\ selectionState = event.pre.selectionState

\* C2: a click on a non-disabled date d in state Anchored(s) whose span is at
\* most maxSelectionRangeInDays moves the calendar to Committed(lo, hi) with
\* lo = min(s, d) and hi = max(s, d), whichever of s and d was clicked first,
\* the span equal to the maximum and the same-day selection included.
C2_SpanWithinMaxCommits ==
    (ClickedSecond /\ DaysBetween(ClickLo, ClickHi) <= maxSelectionRangeInDays)
        => selectionState =
              [startDate |-> ClickLo, endDate |-> ClickHi, selecting |-> FALSE]

\* the later date was clicked first and the span is exactly the maximum
C2_Witness ==
    /\ ClickedSecond
    /\ event.date < event.pre.selectionState.startDate
    /\ DaysBetween(ClickLo, ClickHi) = maxSelectionRangeInDays
    /\ Committed(selectionState)

\* the same date was clicked twice
C2_SameDayCommitted ==
    /\ ClickedSecond
    /\ event.date = event.pre.selectionState.startDate
    /\ Committed(selectionState)

\* C3: whenever the calendar's selection or the picker's selected range has
\* both a start and an end, start <= end; and a click on a non-disabled date
\* in state Anchored is refused only when its span exceeds the maximum, never
\* for the order of the two clicks.
C3_StartNotAfterEnd ==
    /\ Committed(selectionState) => selectionState.startDate <= selectionState.endDate
    /\ Committed(selectedRange) => selectedRange.startDate <= selectedRange.endDate
    /\ (ClickedSecond /\ selectionState = event.pre.selectionState)
          => DaysBetween(ClickLo, ClickHi) > maxSelectionRangeInDays

\* the clicks came later date first, and the range stands start first
C3_Witness ==
    /\ ClickedSecond
    /\ event.date < event.pre.selectionState.startDate
    /\ Committed(selectionState)
    /\ selectionState.startDate = event.date
    /\ selectedRange.startDate = event.date
    /\ selectedRange.endDate = event.pre.selectionState.startDate

\* the last event took the calendar from Anchored to Committed
CommitTransition ==
    /\ event.pre.isPickerOpen
    /\ Anchored(event.pre.selectionState)
    /\ isPickerOpen
    /\ Committed(selectionState)

\* C4: onSelection(start, end) is called exactly once by each transition from
\* Anchored to Committed, with the committed range, and by no other event.
C4_OnSelectionOncePerCommit ==
    IF CommitTransition
    THEN onSelectionCalls = <<[startDate |-> selectionState.startDate,
                               endDate |-> selectionState.endDate]>>
    ELSE onSelectionCalls = <<>>

\* a commit has just called onSelection once
C4_Witness ==
    /\ CommitTransition
    /\ Len(onSelectionCalls) = 1
    /\ event.op = "click"

\* C5: from Empty and from any Committed(s, e), a click on a non-disabled date
\* d moves the calendar to Anchored(d) (start = d, no end), whatever was
\* committed before, and calls neither onSelection nor onRangeSelection.
C5_FirstClickAnchors ==
    (/\ Clicked
     /\ ~isDateDisabled(event.date, event.pre.now)
     /\ (Empty(event.pre.selectionState) \/ Committed(event.pre.selectionState)))
        => /\ selectionState =
                 [startDate |-> event.date, endDate |-> NoDate, selecting |-> TRUE]
           /\ selectedRange = event.pre.selectedRange
           /\ NoCallback

\* a click has anchored an Empty calendar
C5_Witness ==
    /\ Clicked
    /\ Empty(event.pre.selectionState)
    /\ Anchored(selectionState)
    /\ selectionState.startDate = event.date

\* a click has discarded a committed range
C5_FromCommitted ==
    /\ Clicked
    /\ Committed(event.pre.selectionState)
    /\ Anchored(selectionState)

\* C6: a click or a hover on a disabled date (one isDateDisabled reports, or
\* one more than MAX_PAST_DAYS calendar days back) changes nothing in any
\* calendar state: selection state, hover date and picker range stay, and no
\* callback is called.
C6_DisabledDateIgnored ==
    (/\ Clicked \/ Hovered
     /\ \/ isDateDisabled(event.date, event.pre.now)
        \/ BeyondPastLimit(event.date, event.pre.now))
        => /\ selectionState = event.pre.selectionState
           /\ hoverDate = event.pre.hoverDate
           /\ selectedRange = event.pre.selectedRange
           /\ NoCallback

\* the mouse entered a disabled cell while an anchor was pending
C6_Witness ==
    /\ Hovered
    /\ BeyondPastLimit(event.date, event.pre.now)
    /\ Anchored(event.pre.selectionState)
    /\ hoverDate = event.pre.hoverDate

\* C7: isDateDisabled is inclusive at the limit: at any time of day, the date
\* exactly MAX_PAST_DAYS calendar days before today is not disabled, and the
\* past-days rule disables only dates more than MAX_PAST_DAYS days back.
C7_LimitDayIsSelectable ==
    \A date \in ClickDates :
        /\ DayOf(date) = DayOf(now) - MAX_PAST_DAYS => ~isDateDisabled(date, now)
        /\ isDateDisabled(date, now)
              => (BeyondPastLimit(date, now) \/ DateMessageDisabled(date))

\* C8: Apply while the calendar holds an anchor and no end date is a no-op:
\* no onRangeSelection call, the picker stays open and nothing changes.
C8_ApplyIncompleteIsNoOp ==
    (event.op = "apply" /\ event.pre.isPickerOpen
        /\ Anchored(event.pre.selectionState))
        => /\ onRangeSelectionCalls = <<>>
           /\ isPickerOpen
           /\ selectionState = event.pre.selectionState
           /\ selectedRange = event.pre.selectedRange

\* C9: onRangeSelection is called on Apply and on a timezone change only; the
\* calendar's commit transition by itself calls it zero times.
C9_CommitAloneEmitsNothing ==
    /\ onRangeSelectionCalls # <<>> => event.op \in {"apply", "timezone"}
    /\ CommitTransition => onRangeSelectionCalls = <<>>

\* C10: every call of onRangeSelection carries a start and an end, both
\* non-null and start <= end, which are the picker's selected range, and the
\* timezone that is selected when the call is made.
C10_CallsCarryCompleteRange ==
    \A i \in DOMAIN onRangeSelectionCalls :
        LET call == onRangeSelectionCalls[i]
        IN  /\ call.startDate # NoDate
            /\ call.endDate # NoDate
            /\ call.startDate <= call.endDate
            /\ call.startDate = selectedRange.startDate
            /\ call.endDate = selectedRange.endDate
            /\ call.timezone = timezone

\* a change of timezone has called onRangeSelection
C10_Witness ==
    /\ event.op = "timezone"
    /\ event.tz # event.pre.timezone
    /\ Len(onRangeSelectionCalls) = 1
    /\ onRangeSelectionCalls[1].timezone = event.tz

-----------------------------------------------------------------------------
(* Properties of the picker's controls *)

\* the last event was Cancel
Cancelled == event.op = "close" /\ event.pre.isPickerOpen

\* C11: Cancel closes the picker surface and calls onRangeSelection zero times,
\* in every state of the picker and of the calendar.
C11_CancelClosesSilently ==
    Cancelled => (~isPickerOpen /\ onRangeSelectionCalls = <<>>)

\* Cancel was pressed over an anchor with a preview, the picker holding a
\* complete range
C11_Witness ==
    /\ Cancelled
    /\ Anchored(event.pre.selectionState)
    /\ event.pre.hoverDate # NoDate
    /\ HasCompleteRange(selectedRange)
    /\ ~isPickerOpen

\* the last event opened a picker that Cancel had closed
ReopenedAfterCancel ==
    /\ event.op = "open"
    /\ ~event.pre.isPickerOpen
    /\ event.cancelled # NoCalendar

\* C12: Cancel does not reset the calendar: a calendar that is Anchored(s), or
\* shows a month the user navigated to, when Cancel is pressed is in the same
\* selection state, on the same month, at the next opening of the picker.
C12_CancelKeepsCalendarState ==
    ReopenedAfterCancel
        => /\ selectionState = event.cancelled.selectionState
           /\ currentMonth = event.cancelled.currentMonth
           /\ currentYear = event.cancelled.currentYear

\* C13: a change of timezone while the picker holds a complete range calls
\* onRangeSelection exactly once, at once, with the same start and end and the
\* new timezone, and leaves the selected dates and the calendar's selection
\* state as they were.
C13_TimezoneChangeReportsOnce ==
    (event.op = "timezone" /\ HasCompleteRange(event.pre.selectedRange))
        => /\ onRangeSelectionCalls =
                 <<RangeCall(event.pre.selectedRange.startDate,
                             event.pre.selectedRange.endDate, event.tz)>>
           /\ timezone = event.tz
           /\ selectedRange = event.pre.selectedRange
           /\ selectionState = event.pre.selectionState
           /\ hoverDate = event.pre.hoverDate

\* the timezone changed over a range that the calendar had committed
C13_Witness ==
    /\ event.op = "timezone"
    /\ event.tz # event.pre.timezone
    /\ ~event.pre.isPickerOpen
    /\ selectedRange.startDate \in ClickDates
    /\ selectedRange.endDate \in ClickDates
    /\ selectedRange.startDate < selectedRange.endDate
    /\ Len(onRangeSelectionCalls) = 1

-----------------------------------------------------------------------------
(* Properties of the hover preview and of the range highlight *)

\* the cells that the calendar draws as part of the range are the cell of the
\* anchor alone
NoPreview ==
    \A date \in ClickDates :
        isInRange(date, selectionState, hoverDate)
            <=> isSameDay(date, selectionState.startDate)

\* C14: the hover preview is discarded on every state transition: after a hover
\* at h in Anchored(s), a commit and a new selection of d, the calendar in
\* Anchored(d) shows no preview range derived from h until a new hover occurs.
C14_PreviewDiscardedOnTransition ==
    (Clicked /\ ~Anchored(event.pre.selectionState) /\ Anchored(selectionState))
        => NoPreview

\* C15: a hover never changes the selection state: in every state it leaves
\* start, end and the picker's selected range as they were and calls nothing;
\* the hover date is recorded only while the state is Anchored, and the cells
\* then highlighted are those of [min(anchor, hover), max(anchor, hover)].
C15_HoverOnlyPreviews ==
    Hovered
        => /\ selectionState = event.pre.selectionState
           /\ selectedRange = event.pre.selectedRange
           /\ NoCallback
           /\ hoverDate # event.pre.hoverDate => Anchored(event.pre.selectionState)
           /\ (Anchored(event.pre.selectionState)
                  /\ ~isDateDisabled(event.date, event.pre.now))
                 => /\ hoverDate = event.date
                    /\ \A date \in ClickDates :
                          isInRange(date, selectionState, hoverDate)
                             <=> /\ Min(selectionState.startDate, hoverDate) <= date
                                 /\ date <= Max(selectionState.startDate, hoverDate)

\* the mouse moved to a date before the anchor, and the days between are
\* highlighted
C15_Witness ==
    /\ Hovered
    /\ Anchored(selectionState)
    /\ hoverDate = event.date
    /\ hoverDate < selectionState.startDate
    /\ hoverDate # event.pre.hoverDate
    /\ \E date \in ClickDates :
          /\ hoverDate < date
          /\ date < selectionState.startDate
          /\ isInRange(date, selectionState, hoverDate)

\* C19: a date on the same calendar day as both the start and the end of the
\* range (a range of one day) is reported as the start edge and as the end
\* edge at once.
C19_ZeroSpanIsBothEdges ==
    (isPickerOpen /\ Committed(selectionState)
        /\ isSameDay(selectionState.startDate, selectionState.endDate))
        => \A date \in ClickDates :
              isSameDay(date, selectionState.startDate)
                 => /\ isRangeStart(date, selectionState)
                    /\ isRangeEnd(date, selectionState)

-----------------------------------------------------------------------------
(* Properties of the calendar grid *)

\* the month on display and its shape
ShownDaysInMonth == DaysInMonth(currentYear, currentMonth)
ShownStartingDayOfWeek == GetDay(NewDate(currentYear, currentMonth, 1))

\* the positions <<row, column>> of the cells of a grid
Cells(grid) == {<<w, i>> \in (DOMAIN grid) \X (1..7) : i \in DOMAIN grid[w]}

\* every row of the grid has 7 cells
RowsOfSeven(grid) == \A w \in DOMAIN grid : Len(grid[w]) = 7

\* the rows needed to hold a month of n days starting on weekday d
WeeksNeeded(d, n) == (d + n + 6) \div 7

C16_SixRowsShown ==
    /\ isPickerOpen
    /\ Len(calendarGrid) = 6

\* C17: for every (year, month), each day 1..daysInMonth of the month is in
\* exactly one cell of the grid, no day is there twice and no date of another
\* month is there, for every starting weekday and every month length.
C17_EveryDayInOneCell ==
    isPickerOpen
        => LET grid == calendarGrid
               days == 1..ShownDaysInMonth
           IN  /\ \A day \in days :
                     Cardinality({c \in Cells(grid) :
                        grid[c[1]][c[2]] = NewDate(currentYear, currentMonth, day)}) = 1
               /\ \A c \in Cells(grid) :
                     \/ grid[c[1]][c[2]] = NoDate
                     \/ \E day \in days :
                           grid[c[1]][c[2]] = NewDate(currentYear, currentMonth, day)

\* a month of 31 days starting on a Saturday, the last day alone in row 6
C17_Witness ==
    /\ isPickerOpen
    /\ event.op \in {"prev", "next"}
    /\ ShownDaysInMonth = 31
    /\ ShownStartingDayOfWeek = 6
    /\ Len(calendarGrid) = 6
    /\ calendarGrid[6][2] = NewDate(currentYear, currentMonth, 31)

\* the calendar shows April 2025
ShowsApril2025 == isPickerOpen /\ currentYear = 2025 /\ currentMonth = 3

\* the dates first..last of April 2025, in order
AprilDates(first, last) == [i \in 1..(last - first + 1) |-> NewDate(2025, 3, first + i - 1)]

\* C18 as stated: for April 2025 (30 days, first day a Tuesday) the first row
\* of the grid consists of 2 leading empty cells followed by the dates 1
\* through 4.
C18_AprilFirstRowEndsOnFour ==
    ShowsApril2025 => calendarGrid[1] = <<NoDate, NoDate>> \o AprilDates(1, 4)

\* C18, amended: for April 2025 (30 days, first day a Tuesday) the first row
\* of the grid consists of 2 leading empty cells followed by the dates 1
\* through 5.
C18_AprilFirstRowEndsOnFive ==
    ShowsApril2025
        => /\ ShownDaysInMonth = 30
           /\ ShownStartingDayOfWeek = 2
           /\ calendarGrid[1] = <<NoDate, NoDate>> \o AprilDates(1, 5)

\* the user has gone forward to April 2025
C18_Witness ==
    /\ ShowsApril2025
    /\ event.op = "next"
    /\ Len(calendarGrid[1]) = 7
    /\ calendarGrid[1][7] = NewDate(2025, 3, 5)

-----------------------------------------------------------------------------
(* Properties of the cache *)

\* the last call of the cache was getCachedData, of cacheEvent.key
Got == cacheEvent.op = "get"

\* the item the cache held under that key
GotItem == cacheEvent.pre[cacheEvent.key]

\* C20: get(key) returns the stored value if and only if an entry exists for
\* key and now <= expiresAt, a read at exactly now = expiresAt included; in
\* every other case it returns null.
C20_GetReturnsLiveEntry ==
    Got => IF GotItem # NoItem /\ dateNow <= GotItem.expiry
           THEN cacheEvent.result = GotItem.data /\ cacheEvent.result # Null
           ELSE cacheEvent.result = Null

\* an item stored with the default expiry time was read at the very instant
\* it expires, and returned
C20_Witness ==
    /\ Got
    /\ GotItem # NoItem
    /\ GotItem.expiry = GotItem.timestamp + DEFAULT_CACHE_EXPIRY
    /\ dateNow = GotItem.expiry
    /\ cacheEvent.result = GotItem.data

\* an item was read one millisecond after it expired, and null returned
C20_ExpiredRead ==
    /\ Got
    /\ GotItem # NoItem
    /\ dateNow = GotItem.expiry + 1
    /\ cacheEvent.result = Null

\* the item that the queued updates hold under that key: what the last
\* setCachedData, removeCacheItem or clearCache before the get left there
GotQueuedItem == cacheEvent.queued[cacheEvent.key]

\* C21: get never changes the cache store: after any get, the get of an
\* expired key that returns null included, the store holds exactly the entries
\* it held before; an expired entry stays in the store until remove, clear or
\* an overwriting put.
C21_GetLeavesStoreAlone ==
    /\ Got => (cache = cacheEvent.pre /\ queuedCache = cacheEvent.queued)
    /\ \A key \in StoredKeys :
          queuedCache[key] # cacheEvent.queued[key]
             => \/ cacheEvent.op \in {"set", "remove"} /\ cacheEvent.key = key
                \/ cacheEvent.op = "clear"
    /\ cache # cacheEvent.pre => (cacheEvent.op = "render" /\ cache = cacheEvent.queued)

\* an expired item was read, null was returned and the item is still stored
C21_Witness ==
    /\ Got
    /\ GotItem # NoItem
    /\ dateNow > GotItem.expiry
    /\ cacheEvent.result = Null
    /\ cache[cacheEvent.key] = GotItem
    /\ queuedCache[cacheEvent.key] = GotItem

\* C22: after put(k, v, ttl), a get(k) issued immediately afterwards by the
\* same caller, and any get(k) issued before ttl has elapsed, returns v; a
\* second put on the same key replaces the entry, so the last write wins.
C22_GetReturnsLastPut ==
    /\ (Got /\ GotQueuedItem # NoItem /\ dateNow <= GotQueuedItem.expiry)
          => cacheEvent.result = GotQueuedItem.data
    /\ (cacheEvent.op = "set")
          => /\ queuedCache[cacheEvent.key].timestamp = dateNow
             /\ queuedCache[cacheEvent.key].expiry \in
                   {dateNow + expiryTime : expiryTime \in ExpiryTimes}
             /\ queuedCache[cacheEvent.key].data \in CacheData

\* C23: remove(k) deletes only the entry of k, so that a following get(k)
\* returns null and every other key keeps its entry; clear() empties the
\* store, so that a following get returns null for every key.
C23_RemoveAndClearTakeEffect ==
    /\ cacheEvent.op = "remove"
          => queuedCache = [cacheEvent.queued EXCEPT ![cacheEvent.key] = NoItem]
    /\ cacheEvent.op = "clear"
          => \A key \in StoredKeys : queuedCache[key] = NoItem
    /\ (Got /\ GotQueuedItem = NoItem) => cacheEvent.result = Null

-----------------------------------------------------------------------------
(* Properties of the dashboard *)

\* the ranges and timezones whose keys are compared with the key of the range
\* shown: days in two months, before and from the tenth, each at every time
\* of the day, the start and the end at times of their own
ComparedStartDays == {Today - 10, Today - DefaultRangeDays, Today - 1}
ComparedEndDays == {Today - 1, Today}
ComparedTriples ==
    {<<startDay * TicksPerDay + s, endDay * TicksPerDay + e, tz>> :
        startDay \in ComparedStartDays, endDay \in ComparedEndDays,
        s \in 0..(TicksPerDay - 1), e \in 0..(TicksPerDay - 1), tz \in Timezones}
\* each of them with its key
ComparedKeys ==
    {[startDate |-> triple[1], endDate |-> triple[2], timezone |-> triple[3],
      key |-> getCacheKey(triple[1], triple[2], triple[3])] : triple \in ComparedTriples}

\* C24: the cache key is derived from the local day of the start, the local
\* day of the end and the timezone: when fetchData has derived the key of the
\* range shown, a range with the same start day, the same end day and the same
\* timezone has that key, whatever the times of the day, and a range that
\* differs in the start day, the end day or the timezone has another key.
C24_KeyIsDaysAndTimezone ==
    dashEvent.op = "fetchData"
        => \A compared \in ComparedKeys :
              compared.key = dashEvent.key
                  <=> /\ isSameDay(compared.startDate, dashboard.startDate)
                      /\ isSameDay(compared.endDate, dashboard.endDate)
                      /\ compared.timezone = dashboard.timezone

\* the dashboard looked up the key of a range whose dates are not at midnight,
\* and it is the key of the same days at midnight
C24_Witness ==
    /\ dashEvent.op = "fetchData"
    /\ dashboard.startDate # DayOf(dashboard.startDate) * TicksPerDay
    /\ dashboard.endDate # DayOf(dashboard.endDate) * TicksPerDay
    /\ \E compared \in ComparedKeys :
          /\ compared.startDate = DayOf(dashboard.startDate) * TicksPerDay
          /\ compared.endDate = DayOf(dashboard.endDate) * TicksPerDay
          /\ compared.timezone = dashboard.timezone
          /\ compared.key = dashEvent.key

\* the range and the timezone that the dashboard holds
Triple(state) == <<state.startDate, state.endDate, state.timezone>>

\* the entry that the cache holds under the key of the last event
KeyItem == cache[dashEvent.key]

\* that entry exists and has not expired
KeyItemLive == KeyItem # NoItem /\ dateNow <= KeyItem.expiry

\* C25: on each committed (start, end, timezone) the cache is consulted first,
\* under the key of the triple: if it holds a live entry the cached rows are
\* shown and no fetch is dispatched; if it holds none, or an expired one,
\* exactly one fetch is dispatched, and on success the rows are stored under
\* the key and shown.
C25_CacheFirstThenOneFetch ==
    /\ (dashEvent.op = "change" /\ Triple(dashboard) # Triple(dashEvent.pre))
          => effectPending
    /\ dashEvent.op = "fetchData"
          => /\ dashEvent.key = CurrentCacheKey
             /\ IF KeyItemLive
                THEN /\ dashboard.data = KeyItem.data
                     /\ inFlight = dashEvent.preInFlight
                     /\ dashboard.loading = dashEvent.pre.loading
                ELSE /\ inFlight = Append(dashEvent.preInFlight, dashEvent.key)
                     /\ dashboard.data = dashEvent.pre.data
                     /\ dashboard.loading
    /\ (dashEvent.op = "resolve" /\ ~dashEvent.failed)
          => /\ KeyItem = NewCacheItem(dashEvent.rows, dateNow, DEFAULT_CACHE_EXPIRY)
             /\ dashboard.data = dashEvent.rows
             /\ inFlight = WithoutCall(dashEvent.preInFlight, dashEvent.call)

\* the timezone was changed to one whose rows are cached and live: they are
\* shown without a fetch
C25_Witness ==
    /\ dashEvent.op = "fetchData"
    /\ dashboard.timezone = "Europe/London"
    /\ KeyItemLive
    /\ KeyItem.data \in CacheData
    /\ dashboard.data = KeyItem.data
    /\ inFlight = <<>>

\* the rows cached for the range had expired when it was committed again, and
\* one fetch was dispatched
C25_ExpiredRefetched ==
    /\ dashEvent.op = "fetchData"
    /\ KeyItem # NoItem
    /\ ~KeyItemLive
    /\ inFlight = <<dashEvent.key>>

\* the request of the last event failed
FetchFailed == dashEvent.op \in {"resolve", "reject"} /\ dashEvent.failed

\* C26: when a fetch fails, the failure is surfaced as the generic error
\* message, the loading indicator is cleared, and the cache gets no entry for
\* that key (no negative caching), so that the next request for the same key
\* finds what it would have found before and, without a live entry, dispatches
\* a fresh fetch.
C26_FailureIsShownAndNotCached ==
    FetchFailed
        => /\ dashboard.error = FetchErrorMessage
           /\ ~dashboard.loading
           /\ cache = dashEvent.preCache
           /\ queuedCache = dashEvent.preCache

\* a request failed and the dashboard shows no error, and the cache holds an
\* entry without rows for the key, which the next request for the key is
\* answered with
C26_FailureCached ==
    /\ FetchFailed
    /\ dashboard.error = Null
    /\ dashEvent.preCache[dashEvent.key] = NoItem
    /\ KeyItemLive
    /\ KeyItem.data = EmptyRows

\* a request failed with fetchDataForDateRange rethrowing: the message is
\* shown and the cache is as it was
C26_FailureRethrown ==
    /\ dashEvent.op = "reject"
    /\ dashboard.error = FetchErrorMessage
    /\ ~dashboard.loading
    /\ cache = dashEvent.preCache

\* the call that resolved was not the latest dispatched: one dispatched after
\* it was in flight
Superseded == dashEvent.call < Len(dashEvent.preInFlight)

\* C27: last request wins: when fetches overlap because the range or the
\* timezone changed while a fetch was in flight, the result of a superseded
\* fetch that resolves is discarded and does not become the displayed rows;
\* only the result of the latest fetch dispatched is applied.
C27_SupersededResultDiscarded ==
    (dashEvent.op = "resolve" /\ Superseded)
        => dashboard.data = dashEvent.pre.data

\* the rows of a superseded fetch for another timezone are displayed while
\* the fetch for the timezone shown is in flight
C27_StaleRowsShown ==
    /\ dashEvent.op = "resolve"
    /\ Superseded
    /\ dashEvent.key # CurrentCacheKey
    /\ CurrentCacheKey = dashEvent.preInFlight[Len(dashEvent.preInFlight)]
    /\ dashboard.data = dashEvent.rows
    /\ dashboard.data # dashEvent.pre.data

-----------------------------------------------------------------------------
(* Properties of the table *)

\* chars contains term at some position, the case of the letters set aside
ContainsIgnoringCase(chars, term) ==
    \E start \in 0..(Len(chars) - Len(term)) :
        \A k \in 1..Len(term) : LowerChar(chars[start + k]) = LowerChar(term[k])

\* chars contains term at some position
Contains(chars, term) ==
    \E start \in 0..(Len(chars) - Len(term)) :
        \A k \in 1..Len(term) : chars[start + k] = term[k]

\* the value matches the term
ValueMatches(value, term) ==
    \/ value.type = "string" /\ ContainsIgnoringCase(value.chars, term)
    \/ value.type = "number" /\ Contains(toString(value.num), term)

\* the rows of a sequence
RowsOf(rows) == {rows[i] : i \in DOMAIN rows}

\* the position of a row in a sequence that has it once
PositionIn(rows, row) == CHOOSE i \in DOMAIN rows : rows[i] = row

\* rows has each of its rows once
NoRowTwice(rows) == \A i, j \in DOMAIN rows : rows[i] = rows[j] => i = j

\* rows is a subsequence of data: rows of data, each once, in the order of data
IsSubsequence(rows, data) ==
    /\ NoRowTwice(rows)
    /\ RowsOf(rows) \subseteq RowsOf(data)
    /\ \A i, j \in DOMAIN rows :
          i < j => PositionIn(data, rows[i]) < PositionIn(data, rows[j])

\* C28: the table filter: with an empty search term every row passes, in the
\* original order; with a non-empty term a row passes iff its value in the
\* search column is a string that contains the term case-insensitively or a
\* number whose decimal string contains the term, a value of another type
\* never matching; the result is an order-preserving subsequence of the rows.
C28_FilterResult ==
    /\ table.searchTerm = <<>> => table.filteredData = table.data
    /\ table.searchTerm # <<>>
          => RowsOf(table.filteredData) =
                {row \in RowsOf(table.data) :
                    ValueMatches(row[table.searchColumn], table.searchTerm)}
    /\ IsSubsequence(table.filteredData, table.data)

\* a term in upper case was typed while three rows were searched by location:
\* the two rows whose location has the letter pass, in either case, and the one
\* without a location does not
C28_Witness ==
    /\ tableEvent.op = "search"
    /\ table.searchTerm = <<"B">>
    /\ table.searchColumn = "location"
    /\ Len(table.data) = 3
    /\ Len(table.filteredData) = 2
    /\ \E row \in RowsOf(table.data) :
          row.location.type = "undefined" /\ row \notin RowsOf(table.filteredData)

\* the rows were searched by a number and those whose id has the digit pass
C28_NumberMatched ==
    /\ table.searchTerm = <<"2">>
    /\ table.searchColumn = "id"
    /\ Len(table.data) = 3
    /\ Len(table.filteredData) = 2

\* the values of two rows in the sort column compare equal
SortKeysEqual(a, b) ==
    CompareFunction(a[table.orderBy], b[table.orderBy], table.order) = 0

\* C29: the sort is stable in both directions: two rows whose values in the
\* sort column compare equal keep their relative order in the sorted rows,
\* and the sorted rows are a permutation of the rows.
C29_SortIsStablePermutation ==
    /\ Len(sortedData) = Len(table.filteredData)
    /\ RowsOf(sortedData) = RowsOf(table.filteredData)
    /\ \A i, j \in DOMAIN table.filteredData :
          (i < j /\ SortKeysEqual(table.filteredData[i], table.filteredData[j]))
             => PositionIn(sortedData, table.filteredData[i])
                   < PositionIn(sortedData, table.filteredData[j])

\* three rows are sorted in descending order, the sort moved a row, and two
\* rows with equal values are in their original order
C29_Witness ==
    /\ table.order = "desc"
    /\ Len(table.filteredData) = 3
    /\ sortedData # table.filteredData
    /\ \E i, j \in DOMAIN table.filteredData :
          /\ i < j
          /\ SortKeysEqual(table.filteredData[i], table.filteredData[j])
          /\ PositionIn(sortedData, table.filteredData[i])
                < PositionIn(sortedData, table.filteredData[j])

\* the same in ascending order
C29_AscendingTie ==
    /\ table.order = "asc"
    /\ Len(table.filteredData) = 3
    /\ sortedData # table.filteredData
    /\ \E i, j \in DOMAIN table.filteredData :
          i < j /\ SortKeysEqual(table.filteredData[i], table.filteredData[j])

\* a sequence from its last element to its first
Reversed(rows) == [i \in 1..Len(rows) |-> rows[Len(rows) + 1 - i]]

\* no two rows have values in the sort column that compare equal
SortKeysDiffer(rows) ==
    \A i, j \in DOMAIN rows : i # j => ~SortKeysEqual(rows[i], rows[j])

\* C30: for every pair of rows, the descending comparator returns the exact
\* negation of the ascending comparator, so that for rows with pairwise
\* non-equal keys the descending sort is the reverse of the ascending sort.
C30_DescendingNegatesAscending ==
    /\ \A a, b \in RowsOf(table.data) :
          CompareFunction(a[table.orderBy], b[table.orderBy], "desc")
             = 0 - CompareFunction(a[table.orderBy], b[table.orderBy], "asc")
    /\ SortKeysDiffer(table.filteredData)
          => sortData(table.filteredData, table.orderBy, "desc")
                = Reversed(sortData(table.filteredData, table.orderBy, "asc"))

\* a header was clicked and three rows with different values in its column,
\* one of them without a value, are sorted in descending order
C30_Witness ==
    /\ tableEvent.op = "sort"
    /\ table.order = "desc"
    /\ Len(table.filteredData) = 3
    /\ SortKeysDiffer(table.filteredData)
    /\ sortedData = Reversed(sortData(table.filteredData, table.orderBy, "asc"))
    /\ sortedData # table.filteredData

\* C31: filtering and sorting commute: for the rows, the search term, the
\* search column and the sort state of the table, filtering the rows and then
\* sorting them, as the table does, gives the same sequence of rows as sorting
\* them and then filtering.
C31_FilterAndSortCommute ==
    sortData(FilterEffect(table.data, table.searchTerm, table.searchColumn),
             table.orderBy, table.order)
        = FilterEffect(sortData(table.data, table.orderBy, table.order),
                       table.searchTerm, table.searchColumn)

\* the filter drops one of three rows and the sort moves the rows that are
\* left; the table shows what sorting first and filtering then gives
C31_Witness ==
    /\ table.searchTerm # <<>>
    /\ Len(table.data) = 3
    /\ Len(table.filteredData) = 2
    /\ sortedData # table.filteredData
    /\ sortData(table.data, table.orderBy, table.order) # table.data
    /\ sortedData = FilterEffect(sortData(table.data, table.orderBy, table.order),
                                 table.searchTerm, table.searchColumn)

-----------------------------------------------------------------------------
(* Further properties of the calendar and the picker *)

\* the last event was a press of the previous-month or the next-month button
Navigated == event.op \in {"prev", "next"}

\* C32: month navigation keeps the displayed month in 0..11: next from month
\* 11 gives month 0 of the next year, previous from month 0 gives month 11 of
\* the year before, and otherwise only the month changes, by one; previous
\* followed by next, and next followed by previous, return to the same year
\* and month; navigation leaves the selection state and the hover date
\* unchanged and calls no callback.
C32_MonthNavigation ==
    /\ isPickerOpen => currentMonth \in 0..11
    /\ event.op = "next"
          => IF event.pre.currentMonth = 11
             THEN currentMonth = 0 /\ currentYear = event.pre.currentYear + 1
             ELSE /\ currentMonth = event.pre.currentMonth + 1
                  /\ currentYear = event.pre.currentYear
    /\ event.op = "prev"
          => IF event.pre.currentMonth = 0
             THEN currentMonth = 11 /\ currentYear = event.pre.currentYear - 1
             ELSE /\ currentMonth = event.pre.currentMonth - 1
                  /\ currentYear = event.pre.currentYear
    /\ event.op = "prev"
          => NextMonth(currentYear, currentMonth)
                = <<event.pre.currentYear, event.pre.currentMonth>>
    /\ event.op = "next"
          => PrevMonth(currentYear, currentMonth)
                = <<event.pre.currentYear, event.pre.currentMonth>>
    /\ Navigated
          => /\ selectionState = event.pre.selectionState
             /\ hoverDate = event.pre.hoverDate
             /\ onSelectionCalls = <<>>
             /\ onRangeSelectionCalls = <<>>

\* with a start date clicked and the end pending, the previous-month button
\* was pressed in January 2025 and the calendar shows December 2024
C32_Witness ==
    /\ event.op = "prev"
    /\ event.pre.currentMonth = 0
    /\ currentMonth = 11
    /\ currentYear = 2024
    /\ selectionState.selecting

\* the next-month button was pressed in December and the calendar shows
\* January of the next year
C32_NextFromDecember ==
    /\ event.op = "next"
    /\ event.pre.currentMonth = 11
    /\ currentMonth = 0
    /\ currentYear = event.pre.currentYear + 1

\* the picker gave the calendar a new selectedRange in the last event
NewRangeSupplied == isPickerOpen /\ selectedRange # event.pre.selectedRange

\* C33: when the host supplies a new selected range to the calendar, the
\* selection state of the calendar is reset to that range: its start, its end,
\* not selecting; a pending anchor is discarded.
C33_NewRangeResetsSelection ==
    NewRangeSupplied
        => selectionState = [startDate |-> selectedRange.startDate,
                             endDate |-> selectedRange.endDate,
                             selecting |-> FALSE]

\* a start date was pending when the picker stored a range that starts on
\* another day, and the calendar holds that range and no pending anchor
C33_Witness ==
    /\ NewRangeSupplied
    /\ event.pre.selectionState.selecting
    /\ event.pre.selectionState.startDate # selectedRange.startDate
    /\ selectionState.startDate = selectedRange.startDate
    /\ selectionState.endDate = selectedRange.endDate
    /\ ~selectionState.selecting

\* C34: for every configured maxSelectionRangeInDays from 0, 0 included, every
\* range passed to onSelection spans at most maxSelectionRangeInDays days.
C34_SelectionWithinMaxDays ==
    \A i \in DOMAIN onSelectionCalls :
        DaysBetween(onSelectionCalls[i].startDate, onSelectionCalls[i].endDate)
            <= maxSelectionRangeInDays

\* the same for the hosts that configure at least one day
C34_WithinPositiveMaxDays ==
    maxSelectionRangeInDays > 0 => C34_SelectionWithinMaxDays

\* with no day allowed, a range of ten days was passed to onSelection
C34_ZeroNotEnforced ==
    /\ maxSelectionRangeInDays = 0
    /\ \E i \in DOMAIN onSelectionCalls :
          DaysBetween(onSelectionCalls[i].startDate, onSelectionCalls[i].endDate) = 10

\* with one day allowed, a range of one day was passed to onSelection
C34_OneDayPassed ==
    /\ maxSelectionRangeInDays = 1
    /\ \E i \in DOMAIN onSelectionCalls :
          DaysBetween(onSelectionCalls[i].startDate, onSelectionCalls[i].endDate) = 1

\* C35: the selected range of the picker always has a start and an end: it
\* starts as the range from seven days ago to today and is only ever replaced
\* by a committed range, the ordered pair of the anchor and the day clicked;
\* the pending anchor of the calendar is not copied into it.
C35_SelectedRangeIsComplete ==
    /\ selectedRange.startDate # NoDate
    /\ selectedRange.endDate # NoDate
    /\ selectedRange # event.pre.selectedRange
          => /\ ClickedSecond
             /\ selectedRange = [startDate |-> ClickLo, endDate |-> ClickHi]
             /\ ~selectionState.selecting
    /\ selectionState.selecting => selectedRange.startDate # NoDate

\* the calendar holds a pending anchor on another day than the start of the
\* picker's range, which is the complete range it was before the click
C35_Witness ==
    /\ Clicked
    /\ selectionState.selecting
    /\ selectionState.endDate = NoDate
    /\ selectionState.startDate # selectedRange.startDate
    /\ selectedRange = event.pre.selectedRange
    /\ selectedRange.endDate # NoDate

\* the picker's range was replaced by a committed range
C35_RangeReplaced ==
    /\ selectedRange # event.pre.selectedRange
    /\ selectedRange = [startDate |-> ClickLo, endDate |-> ClickHi]

-----------------------------------------------------------------------------
(* Further properties of the dashboard and its cache *)

\* the last event ended one of the calls in flight, with rows or with a failure
Resolved == dashEvent.op \in {"resolve", "reject"}

\* C36: the loading indicator is true whenever at least one fetch is in
\* flight: with two overlapping fetches, the resolution of one of them, success
\* or failure, does not clear the indicator while the other is still pending.
C36_LoadingWhileInFlight ==
    /\ (Resolved /\ inFlight # <<>>) => dashboard.loading
    /\ (inFlight # <<>> /\ ~effectPending) => dashboard.loading

\* the latest of two overlapping fetches resolved, its rows are shown from the
\* cache, and the indicator is off while the earlier fetch is still awaited
C36_ClearedBySuccess ==
    /\ dashEvent.op = "fetchData"
    /\ ~effectPending
    /\ Len(inFlight) = 1
    /\ inFlight[1] # CurrentCacheKey
    /\ ~dashboard.loading

\* one of two overlapping fetches failed and the indicator is off while the
\* other is still awaited
C36_ClearedByFailure ==
    /\ dashEvent.op = "reject"
    /\ Len(dashEvent.preInFlight) = 2
    /\ Len(inFlight) = 1
    /\ ~dashboard.loading

\* the last event was not the failure of a request
AnsweredWithRows == ~dashEvent.failed

\* the last event was not a report of the picker
NoChange == dashEvent.op # "change"

\* nothing is awaited and no effect is due, and the rows displayed are those
\* that the cache holds for the range and the timezone of the dashboard
ShowsRowsOfTriple ==
    /\ ~effectPending
    /\ inFlight = <<>>
    /\ cache[CurrentCacheKey] # NoItem
    /\ dashboard.data = cache[CurrentCacheKey].data

\* C37: if the user stops changing the range and the timezone and every fetch
\* in flight resolves successfully, in any order, then eventually the rows
\* displayed are the rows fetched or cached for the latest committed start,
\* end and timezone, and they stay so.
C37_DisplayedRowsSettle ==
    ([]AnsweredWithRows /\ <>[]NoChange) => <>[]ShowsRowsOfTriple

\* the rows of a superseded fetch were displayed when nothing was awaited any
\* more, and the effect of that render has replaced them by the rows cached
\* for the range and the timezone of the dashboard
C37_Witness ==
    /\ dashEvent.op = "fetchData"
    /\ ~effectPending
    /\ inFlight = <<>>
    /\ KeyItemLive
    /\ dashboard.data = KeyItem.data
    /\ dashEvent.pre.data # dashboard.data
    /\ \E key \in DashboardKeys :
          /\ key # dashEvent.key
          /\ cache[key] # NoItem
          /\ cache[key].data = dashEvent.pre.data

\* without the condition on the requests: a request failed and its message
\* stands over rows that are not those of the range
C37_SettlesDespiteFailures == <>[]NoChange => <>[]ShowsRowsOfTriple

\* what the fetchData of the render after the last event finds in the cache
\* for the range and the timezone of the dashboard
RerunFinds == CachedDataAt(cache[CurrentCacheKey], dateNow)

\* C38: no fetch loop: storing a fetched result changes the cache and so
\* re-runs fetchData, and that re-run finds the live entry and dispatches no
\* fetch, so that one change of start, end and timezone causes at most one
\* call of fetchDataForDateRange.
C38_RerunDispatchesNoFetch ==
    dashEvent.op = "resolve"
        => /\ effectPending
           /\ RerunFinds # Null

\* the result stored was that of the range and the timezone of the dashboard:
\* the re-run finds it
C38_RerunFindsOwnResult ==
    (dashEvent.op = "resolve" /\ dashEvent.key = CurrentCacheKey)
        => /\ effectPending
           /\ RerunFinds = dashEvent.rows

\* the result of a superseded fetch was stored while the fetch for the
\* timezone of the dashboard is in flight: the re-run finds no entry
C38_RerunMisses ==
    /\ dashEvent.op = "resolve"
    /\ effectPending
    /\ inFlight = <<CurrentCacheKey>>
    /\ dashEvent.key # CurrentCacheKey
    /\ RerunFinds = Null

\* and it has dispatched a second fetch for that timezone
C38_SecondFetchDispatched ==
    /\ dashEvent.op = "fetchData"
    /\ ~dashEvent.pre.loading
    /\ dashEvent.preInFlight = <<dashEvent.key>>
    /\ inFlight = <<dashEvent.key, dashEvent.key>>
    /\ \E key \in DashboardKeys :
          /\ key # dashEvent.key
          /\ cache[key] # NoItem
          /\ cache[key].data = dashboard.data

\* C39: a put never loses or alters the entry of another key: when two
\* overlapping fetches for different keys resolve, in either order, both
\* entries are in the cache afterwards, and storing under a key leaves the
\* entry of every other key unchanged.
C39_PutKeepsOtherKeys ==
    dashEvent.op = "resolve"
        => /\ KeyItem = NewCacheItem(dashEvent.rows, dateNow, DEFAULT_CACHE_EXPIRY)
           /\ \A key \in StoredKeys \ {dashEvent.key} :
                 cache[key] = dashEvent.preCache[key]
           /\ queuedCache = cache

\* of two overlapping fetches the later one resolved first, and the earlier
\* one has resolved now: the cache holds the rows of both
C39_Witness ==
    /\ dashEvent.op = "resolve"
    /\ dashEvent.key # CurrentCacheKey
    /\ dashEvent.preCache[dashEvent.key] = NoItem
    /\ dashEvent.preCache[CurrentCacheKey] # NoItem
    /\ cache[CurrentCacheKey] = dashEvent.preCache[CurrentCacheKey]
    /\ KeyItem # NoItem
    /\ cache[CurrentCacheKey].timestamp = KeyItem.timestamp

\* the earlier one resolved first, and the later one has resolved now
C39_EarlierResolvedFirst ==
    /\ dashEvent.op = "resolve"
    /\ dashEvent.key = CurrentCacheKey
    /\ dashEvent.preCache[dashEvent.key] = NoItem
    /\ KeyItem # NoItem
    /\ \E key \in DashboardKeys :
          /\ key # dashEvent.key
          /\ cache[key] # NoItem
          /\ cache[key] = dashEvent.preCache[key]
          /\ cache[key].timestamp = KeyItem.timestamp

-----------------------------------------------------------------------------
(* Further properties of the table *)

\* the last event was a click on the header of a column
HeaderClicked == tableEvent.op = "sort"

\* C40: after any sequence of header clicks there is exactly one active sort
\* column; a click on the active column while its direction is asc sets desc,
\* and every other click, on the active column while desc or on any other
\* column, sets the clicked column with direction asc; a header click never
\* changes the search term, the search column or the row data.
C40_SortStateAfterClicks ==
    /\ Cardinality(ActiveColumns) = 1
    /\ table.order \in {"asc", "desc"}
    /\ HeaderClicked
          => /\ table.orderBy = tableEvent.property
             /\ table.order =
                   (IF /\ tableEvent.pre.orderBy = tableEvent.property
                       /\ tableEvent.pre.order = "asc"
                    THEN "desc" ELSE "asc")
             /\ table.searchTerm = tableEvent.pre.searchTerm
             /\ table.searchColumn = tableEvent.pre.searchColumn
             /\ table.data = tableEvent.pre.data
             /\ table.filteredData = tableEvent.pre.filteredData

\* the active column was clicked while ascending, over rows that a search
\* had filtered
C40_Witness ==
    /\ HeaderClicked
    /\ tableEvent.pre.orderBy = tableEvent.property
    /\ tableEvent.pre.order = "asc"
    /\ table.order = "desc"
    /\ table.searchTerm # <<>>
    /\ table.filteredData # <<>>
    /\ Len(table.filteredData) < Len(table.data)

\* the active column was clicked while descending
C40_ActiveDescendingClicked ==
    /\ HeaderClicked
    /\ tableEvent.pre.orderBy = tableEvent.property
    /\ tableEvent.pre.order = "desc"
    /\ table.order = "asc"

\* another column was clicked while the active one was ascending
C40_OtherColumnClicked ==
    /\ HeaderClicked
    /\ tableEvent.pre.orderBy # tableEvent.property
    /\ tableEvent.pre.order = "asc"
    /\ table.order = "asc"
    /\ ActiveColumns = {tableEvent.property}

====
